---------------------------- MODULE Spec2Model ----------------------------
(***************************************************************************)
(* A model of the rustdoc-JSON interpreter of docs-mcp                     *)
(* (src/src/docsrs/parser.rs, src/src/docsrs/types.rs).                    *)
(*                                                                         *)
(* Strings are sequences of one-character strings, so that prefix,         *)
(* substring, case and concatenation behave as they do on Rust's String.   *)
(* A serde_json Value is a tagged record [t |-> tag, v |-> payload];       *)
(* Absent stands for the None of Value::get.                               *)
(***************************************************************************)
EXTENDS Integers, Sequences, FiniteSets, TLC

VARIABLES
    ty,        \* type renderer: the Value handed to type_to_string
    rendered,  \* type renderer: the String it returned (NotRun before the call)
    doc,       \* search: the RustdocJson document (index in iteration order, paths)
    call,      \* search: the arguments of the last search_items call (NoCall before)
    results,   \* search: the Vec<SearchResult> the last call returned
    attrs,     \* features: the attribute strings
    declared,  \* features: the declared feature set
    features,  \* features: the Vec<String> returned (NotRun before the call)
    fn_item,   \* signatures: the Item handed to function_signature
    fn_sig,    \* signatures: the String function_signature returned
    item_generics,  \* signatures: the call and result of format_generics_for_item
    tree_doc,  \* module tree: the RustdocJson document handed to build_module_tree
    tree,  \* module tree: the Vec<ModuleNode> it returned (NotRun before the call)
    server,  \* fetch: what docs.rs answers for each crate
    disk,  \* fetch: the cache directory, the file of each url
    now,  \* fetch: the clock, unix_now()
    ticks,  \* fetch: how often the clock has advanced
    fetched,  \* fetch: the last fetch_rustdoc_json call and its Result (NotRun before)
    served,  \* fetch: the last call of a getter of DiskCache and its Result (NotRun before)
    lookup_doc,  \* item lookup: the document, its path table in iteration order
    lookup,  \* item lookup: the last lookup by path and its outcome (NotRun before)
    parent_map,  \* method parents: the map build_method_parent_map returned for doc
    index_lines,  \* sparse index: the lines of the sparse index handed to find_latest_stable
    latest,  \* sparse index: what find_latest_stable returned
    walk_doc,  \* traversal: the document a traversal runs on
    walk  \* traversal: the position of build_module_tree or search_items in its loops

vars == <<ty, rendered, doc, call, results, attrs, declared, features,
          fn_item, fn_sig, item_generics, tree_doc, tree, server, disk,
          now, ticks, fetched, served, lookup_doc, lookup, parent_map,
          index_lines, latest, walk_doc, walk>>
typeVars == <<ty, rendered>>
searchVars == <<doc, call, results>>
featVars == <<attrs, declared, features>>
sigVars == <<fn_item, fn_sig, item_generics>>
treeVars == <<tree_doc, tree>>
fetchVars == <<server, disk, now, ticks, fetched, served>>
lookupVars == <<lookup_doc, lookup>>
mapVars == <<parent_map>>
indexVars == <<index_lines, latest>>
walkVars == <<walk_doc, walk>>

NotRun == [run |-> FALSE]
NoCall == [made |-> FALSE]
NoDoc == [index |-> <<>>, paths |-> <<>>]

-----------------------------------------------------------------------------
(* Strings *)

UpperChars == <<"A","B","C","D","E","F","G","H","I","J","K","L","M",
                "N","O","P","Q","R","S","T","U","V","W","X","Y","Z">>
LowerChars == <<"a","b","c","d","e","f","g","h","i","j","k","l","m",
                "n","o","p","q","r","s","t","u","v","w","x","y","z">>

LowerChar(c) ==
    IF \E i \in 1..26 : UpperChars[i] = c
    THEN LowerChars[CHOOSE i \in 1..26 : UpperChars[i] = c]
    ELSE c

to_lowercase(s) == [i \in 1..Len(s) |-> LowerChar(s[i])]

starts_with(s, p) == Len(p) <= Len(s) /\ SubSeq(s, 1, Len(p)) = p

contains(s, p) ==
    \E i \in 0..(Len(s) - Len(p)) : SubSeq(s, i + 1, i + Len(p)) = p

RECURSIVE join(_, _)
join(parts, sep) ==
    IF Len(parts) = 0 THEN <<>>
    ELSE IF Len(parts) = 1 THEN parts[1]
    ELSE parts[1] \o sep \o join(Tail(parts), sep)

RECURSIVE Concat(_)
Concat(parts) == IF Len(parts) = 0 THEN <<>> ELSE parts[1] \o Concat(Tail(parts))

Digits == <<"0","1","2","3","4","5","6","7","8","9">>

RECURSIVE num_to_string(_)
num_to_string(n) ==
    IF n < 10 THEN <<Digits[n + 1]>>
    ELSE num_to_string(n \div 10) \o <<Digits[(n % 10) + 1]>>

-----------------------------------------------------------------------------
(* serde_json::Value *)

Absent == [t |-> "absent"]
JNull == [t |-> "null"]
JStr(s) == [t |-> "str", v |-> s]
JBool(b) == [t |-> "bool", v |-> b]
JNum(n) == [t |-> "num", v |-> n]
JArr(a) == [t |-> "arr", v |-> a]
JObj(o) == [t |-> "obj", v |-> o]

Present(x) == x.t # "absent"
IsNull(x) == x.t = "null"
IsStr(x) == x.t = "str"
IsArr(x) == x.t = "arr"
IsObj(x) == x.t = "obj"

\* Value::get(key): Some only on an object that has the key
Get(x, k) == IF x.t = "obj" /\ k \in DOMAIN x.v THEN x.v[k] ELSE Absent

\* .and_then(|v| v.as_bool()).unwrap_or(false)
BoolOrFalse(x) == IF x.t = "bool" THEN x.v ELSE FALSE

\* .and_then(|v| v.as_str()).unwrap_or(dflt)
StrOr(x, dflt) == IF x.t = "str" THEN x.v ELSE dflt


-----------------------------------------------------------------------------
(* String literals of parser.rs *)

S_empty == <<>>
S_unit == <<"(",")">>
S_underscore == <<"_">>
S_lt == <<"<">>
S_gt == <<">">>
S_comma == <<","," ">>
S_amp == <<"&">>
S_space == <<" ">>
S_mut_sp == <<"m","u","t"," ">>
S_apos == <<"'">>
S_lparen == <<"(">>
S_rparen == <<")">>
S_lbrack == <<"[">>
S_rbrack == <<"]">>
S_semi == <<";"," ">>
S_star == <<"*">>
S_mut == <<"m","u","t">>
S_const == <<"c","o","n","s","t">>
S_impl_sp == <<"i","m","p","l"," ">>
S_plus == <<" ","+"," ">>
S_dyn_sp == <<"d","y","n"," ">>
S_fn_lparen == <<"f","n","(">>
S_colon_sp == <<":"," ">>
S_arrow == <<" ","-",">"," ">>
S_as == <<" ","a","s"," ">>
S_gt_colons == <<">",":",":">>
S_colons == <<":",":">>
S_null == <<"n","u","l","l">>
S_true == <<"t","r","u","e">>
S_false == <<"f","a","l","s","e">>

\* The object keys the interpreter reads, spelled out for the JSON dump
KeyChars(k) ==
    CASE k = "primitive" -> <<"p","r","i","m","i","t","i","v","e">>
      [] k = "generic" -> <<"g","e","n","e","r","i","c">>
      [] k = "resolved_path" -> <<"r","e","s","o","l","v","e","d","_","p","a","t","h">>
      [] k = "path" -> <<"p","a","t","h">>
      [] k = "name" -> <<"n","a","m","e">>
      [] k = "args" -> <<"a","r","g","s">>
      [] k = "angle_bracketed" -> <<"a","n","g","l","e","_","b","r","a","c","k","e","t","e","d">>
      [] k = "type" -> <<"t","y","p","e">>
      [] k = "borrowed_ref" -> <<"b","o","r","r","o","w","e","d","_","r","e","f">>
      [] k = "lifetime" -> <<"l","i","f","e","t","i","m","e">>
      [] k = "mutable" -> <<"m","u","t","a","b","l","e">>
      [] k = "tuple" -> <<"t","u","p","l","e">>
      [] k = "slice" -> <<"s","l","i","c","e">>
      [] k = "array" -> <<"a","r","r","a","y">>
      [] k = "len" -> <<"l","e","n">>
      [] k = "raw_pointer" -> <<"r","a","w","_","p","o","i","n","t","e","r">>
      [] k = "impl_trait" -> <<"i","m","p","l","_","t","r","a","i","t">>
      [] k = "trait_bound" -> <<"t","r","a","i","t","_","b","o","u","n","d">>
      [] k = "trait" -> <<"t","r","a","i","t">>
      [] k = "dyn_trait" -> <<"d","y","n","_","t","r","a","i","t">>
      [] k = "traits" -> <<"t","r","a","i","t","s">>
      [] k = "function_pointer" -> <<"f","u","n","c","t","i","o","n","_","p","o","i","n","t","e","r">>
      [] k = "sig" -> <<"s","i","g">>
      [] k = "decl" -> <<"d","e","c","l">>
      [] k = "inputs" -> <<"i","n","p","u","t","s">>
      [] k = "output" -> <<"o","u","t","p","u","t">>
      [] k = "qualified_path" -> <<"q","u","a","l","i","f","i","e","d","_","p","a","t","h">>
      [] k = "self_type" -> <<"s","e","l","f","_","t","y","p","e">>
      [] k = "id" -> <<"i","d">>
      [] k = "function" -> <<"f","u","n","c","t","i","o","n">>
      [] k = "struct" -> <<"s","t","r","u","c","t">>
      [] k = "impl" -> <<"i","m","p","l">>
      [] k = "for" -> <<"f","o","r">>
      [] k = "items" -> <<"i","t","e","m","s">>
      [] k = "module" -> <<"m","o","d","u","l","e">>
      [] k = "other" -> <<"o","t","h","e","r">>
      [] k = "outlives" -> <<"o","u","t","l","i","v","e","s">>

\* Byte order of the characters the model uses (ASCII)
AsciiOrder == <<" ","\"","&","'","(",")","*","+",",","-",".",
                "0","1","2","3","4","5","6","7","8","9",":",";","<","=",">",
                "A","B","C","D","E","F","G","H","I","J","K","L","M",
                "N","O","P","Q","R","S","T","U","V","W","X","Y","Z",
                "[","\\","]","_",
                "a","b","c","d","e","f","g","h","i","j","k","l","m",
                "n","o","p","q","r","s","t","u","v","w","x","y","z","{","}">>

CharOrd(c) == CHOOSE i \in 1..Len(AsciiOrder) : AsciiOrder[i] = c

\* Ord for String: lexicographic by byte
RECURSIVE StrLess(_, _)
StrLess(a, b) ==
    IF Len(b) = 0 THEN FALSE
    ELSE IF Len(a) = 0 THEN TRUE
    ELSE IF a[1] = b[1] THEN StrLess(Tail(a), Tail(b))
    ELSE CharOrd(a[1]) < CharOrd(b[1])

\* The keys of an object in map order (serde_json's default map is a BTreeMap)
RECURSIVE SortedKeys(_)
SortedKeys(ks) ==
    IF ks = {} THEN <<>>
    ELSE LET m == CHOOSE k \in ks :
                      \A o \in ks \ {k} : StrLess(KeyChars(k), KeyChars(o))
         IN <<m>> \o SortedKeys(ks \ {m})

EscapeChar(c) == IF c = "\"" \/ c = "\\" THEN <<"\\", c>> ELSE <<c>>

\* impl Display for Value: the compact JSON text
RECURSIVE to_string(_)
to_string(x) ==
    CASE x.t = "null" -> S_null
      [] x.t = "bool" -> IF x.v THEN S_true ELSE S_false
      [] x.t = "num" -> num_to_string(x.v)
      [] x.t = "str" ->
            <<"\"">> \o Concat([i \in 1..Len(x.v) |-> EscapeChar(x.v[i])]) \o <<"\"">>
      [] x.t = "arr" ->
            <<"[">> \o join([i \in 1..Len(x.v) |-> to_string(x.v[i])], <<",">>) \o <<"]">>
      [] x.t = "obj" ->
            LET ks == SortedKeys(DOMAIN x.v)
            IN <<"{">>
               \o join([i \in 1..Len(ks) |->
                          <<"\"">> \o KeyChars(ks[i]) \o <<"\"", ":">>
                          \o to_string(x.v[ks[i]])], <<",">>)
               \o <<"}">>

-----------------------------------------------------------------------------
(* Type-to-string: parser.rs, type_to_string *)

\* Mutant of borrowed_ref_string: the marker is put before every lifetime, also
\* before one that already carries it
borrowed_ref_string_marks_twice(lifetime, mut_str, inner) ==
    IF IsStr(lifetime) /\ Len(lifetime.v) > 0
    THEN S_amp \o S_apos \o lifetime.v \o S_space \o mut_str \o inner
    ELSE S_amp \o mut_str \o inner

\* lines 60-71: `&`, the lifetime with exactly one marker, `mut `, the inner type
borrowed_ref_string(lifetime, mut_str, inner) ==
    IF IsStr(lifetime) /\ Len(lifetime.v) > 0
    THEN IF starts_with(lifetime.v, S_apos)
         THEN S_amp \o lifetime.v \o S_space \o mut_str \o inner
         ELSE S_amp \o S_apos \o lifetime.v \o S_space \o mut_str \o inner
    ELSE S_amp \o mut_str \o inner

\* lines 122-126: `dyn `, the bounds, and the lifetime as it stands in the JSON
dyn_trait_string(traits, lifetime) ==
    IF IsStr(lifetime) /\ Len(lifetime.v) > 0
    THEN S_dyn_sp \o traits \o S_plus \o lifetime.v
    ELSE S_dyn_sp \o traits

\* lines 43-51 and 180-188: `name<arg, ...>`, or the bare name without type arguments
path_with_args(name, type_args) ==
    IF Len(type_args) > 0
    THEN name \o S_lt \o join(type_args, S_comma) \o S_gt
    ELSE name

\* .get("args").and_then(angle_bracketed).and_then(args).and_then(as_array)
angle_args(x) == Get(Get(Get(x, "args"), "angle_bracketed"), "args")

RECURSIVE type_to_string(_)

\* args.iter().filter_map(|a| a.get("type").map(type_to_string))
type_args_of(x) ==
    IF IsArr(angle_args(x))
    THEN LET withType == SelectSeq(angle_args(x).v, LAMBDA a : Present(Get(a, "type")))
         IN [i \in 1..Len(withType) |-> type_to_string(Get(withType[i], "type"))]
    ELSE <<>>

\* .get(k).map(type_to_string).unwrap_or_else(|| "_")
type_or_underscore(x, k) ==
    IF Present(Get(x, k)) THEN type_to_string(Get(x, k)) ELSE S_underscore

\* bounds.iter().filter_map(trait_bound).filter_map(trait).map(type_to_string)
trait_bound_strings(bounds) ==
    LET ok == SelectSeq(bounds, LAMBDA b : Present(Get(Get(b, "trait_bound"), "trait")))
    IN [i \in 1..Len(ok) |-> type_to_string(Get(Get(ok[i], "trait_bound"), "trait"))]

\* lines 112-121: the `traits` of a dyn_trait, joined with ` + `
dyn_traits_of(dt) ==
    IF IsArr(Get(dt, "traits"))
    THEN LET ok == SelectSeq(Get(dt, "traits").v, LAMBDA t : Present(Get(t, "trait")))
         IN join([i \in 1..Len(ok) |-> type_to_string(Get(ok[i], "trait"))], S_plus)
    ELSE S_empty

\* lines 134-147: the `name: type` pairs of a function pointer
fn_pointer_inputs(decl) ==
    IF IsArr(Get(decl, "inputs"))
    THEN LET pairs == SelectSeq(Get(decl, "inputs").v, LAMBDA p : IsArr(p))
         IN join([i \in 1..Len(pairs) |->
                    LET pair == pairs[i].v
                        name == IF Len(pair) >= 1 THEN StrOr(pair[1], S_underscore)
                                ELSE S_underscore
                        pty == IF Len(pair) >= 2 THEN type_to_string(pair[2])
                               ELSE S_underscore
                    IN name \o S_colon_sp \o pty], S_comma)
    ELSE S_empty

\* lines 131-154
function_pointer_string(decl) ==
    LET inputs == fn_pointer_inputs(decl)
        output == IF Present(Get(decl, "output"))
                  THEN type_to_string(Get(decl, "output")) ELSE S_empty
    IN IF Len(output) = 0 \/ output = S_unit
       THEN S_fn_lparen \o inputs \o S_rparen
       ELSE S_fn_lparen \o inputs \o S_rparen \o S_arrow \o output

\* Mutant of qualified_path_string: the full form always, with `_` for a missing
\* trait and the rendering of null for a null one
qualified_path_string_placeholder(qp) ==
    LET self_type == type_or_underscore(qp, "self_type")
        name == StrOr(Get(qp, "name"), S_underscore)
    IN S_lt \o self_type \o S_as \o type_or_underscore(qp, "trait")
       \o S_gt_colons \o name

\* lines 158-169
qualified_path_string(qp) ==
    LET self_type == type_or_underscore(qp, "self_type")
        name == StrOr(Get(qp, "name"), S_underscore)
        trait_val == Get(qp, "trait")
        trait_is_absent == IF Present(trait_val) THEN IsNull(trait_val) ELSE TRUE
    IN IF trait_is_absent
       THEN self_type \o S_colons \o name
       ELSE S_lt \o self_type \o S_as \o type_to_string(trait_val)
            \o S_gt_colons \o name

\* Mutant of direct_path_or_fallback: nothing is rendered for an unknown shape
direct_path_or_nothing(x) ==
    IF Present(Get(x, "id")) /\ IsStr(Get(x, "path"))
    THEN LET path_str == Get(x, "path").v
             name == IF Len(path_str) = 0 THEN S_underscore ELSE path_str
         IN path_with_args(name, type_args_of(x))
    ELSE S_empty

\* lines 173-193: a direct path object (id + path string), else the raw dump
direct_path_or_fallback(x) ==
    IF Present(Get(x, "id")) /\ IsStr(Get(x, "path"))
    THEN LET path_str == Get(x, "path").v
             name == IF Len(path_str) = 0 THEN S_underscore ELSE path_str
         IN path_with_args(name, type_args_of(x))
    ELSE to_string(x)

\* Mutant of late_shapes: the qualified path is tried before the function pointer
late_shapes_qualified_first(x) ==
    IF Present(Get(x, "qualified_path"))
    THEN qualified_path_string(Get(x, "qualified_path"))
    ELSE IF Present(Get(x, "function_pointer"))
       /\ (Present(Get(Get(x, "function_pointer"), "sig"))
           \/ Present(Get(Get(x, "function_pointer"), "decl")))
    THEN LET fp == Get(x, "function_pointer")
         IN function_pointer_string(IF Present(Get(fp, "sig"))
                                    THEN Get(fp, "sig") ELSE Get(fp, "decl"))
    ELSE direct_path_or_fallback(x)

\* lines 129-169: function pointer (only with a sig or decl), qualified path
late_shapes(x) ==
    IF Present(Get(x, "function_pointer"))
       /\ (Present(Get(Get(x, "function_pointer"), "sig"))
           \/ Present(Get(Get(x, "function_pointer"), "decl")))
    THEN LET fp == Get(x, "function_pointer")
         IN function_pointer_string(IF Present(Get(fp, "sig"))
                                    THEN Get(fp, "sig") ELSE Get(fp, "decl"))
    ELSE IF Present(Get(x, "qualified_path"))
    THEN qualified_path_string(Get(x, "qualified_path"))
    ELSE direct_path_or_fallback(x)

type_to_string(x) ==
    IF IsNull(x) THEN S_unit
    ELSE IF ~IsObj(x) THEN to_string(x)
    ELSE IF IsStr(Get(x, "primitive")) THEN Get(x, "primitive").v
    ELSE IF IsStr(Get(x, "generic")) THEN Get(x, "generic").v
    ELSE IF Present(Get(x, "resolved_path"))
    THEN LET rp == Get(x, "resolved_path")
             nameV == IF Present(Get(rp, "path")) THEN Get(rp, "path")
                      ELSE Get(rp, "name")
         IN path_with_args(StrOr(nameV, S_underscore), type_args_of(rp))
    ELSE IF Present(Get(x, "borrowed_ref"))
    THEN LET br == Get(x, "borrowed_ref")
         IN borrowed_ref_string(Get(br, "lifetime"),
                IF BoolOrFalse(Get(br, "mutable")) THEN S_mut_sp ELSE S_empty,
                type_or_underscore(br, "type"))
    ELSE IF IsArr(Get(x, "tuple"))
    THEN LET tup == Get(x, "tuple").v
         IN S_lparen \o join([i \in 1..Len(tup) |-> type_to_string(tup[i])], S_comma)
            \o S_rparen
    ELSE IF Present(Get(x, "slice"))
    THEN S_lbrack \o type_to_string(Get(x, "slice")) \o S_rbrack
    ELSE IF Present(Get(x, "array"))
    THEN LET arr == Get(x, "array")
         IN S_lbrack \o type_or_underscore(arr, "type") \o S_semi
            \o StrOr(Get(arr, "len"), S_underscore) \o S_rbrack
    ELSE IF Present(Get(x, "raw_pointer"))
    THEN LET rp == Get(x, "raw_pointer")
         IN S_star \o (IF BoolOrFalse(Get(rp, "mutable")) THEN S_mut ELSE S_const)
            \o S_space \o type_or_underscore(rp, "type")
    ELSE IF IsArr(Get(x, "impl_trait"))
    THEN S_impl_sp \o join(trait_bound_strings(Get(x, "impl_trait").v), S_plus)
    ELSE IF Present(Get(x, "dyn_trait"))
    THEN LET dt == Get(x, "dyn_trait")
         IN dyn_trait_string(dyn_traits_of(dt), Get(dt, "lifetime"))
    ELSE late_shapes(x)

-----------------------------------------------------------------------------
(* The type nodes handed to the renderer *)

\* Nesting depth of the composite type nodes drawn
TypeDepth == 1

N_a == <<"a">>
N_static == <<"s","t","a","t","i","c">>
N_T == <<"T">>
N_str == <<"s","t","r">>
N_Error == <<"E","r","r","o","r">>
N_Send == <<"S","e","n","d">>
N_Item == <<"I","t","e","m">>

\* the "lifetime" field: missing, null, empty, bare, marked, doubly marked
LifetimeVals ==
    {Absent, JNull, JStr(<<>>), JStr(N_a), JStr(S_apos \o N_a),
     JStr(N_static), JStr(S_apos \o N_static), JStr(S_apos \o S_apos \o N_a)}

MutableVals == {Absent, JBool(TRUE), JBool(FALSE)}

\* a record without the fields whose value is Absent
Obj(fields) == JObj([k \in {f \in DOMAIN fields : Present(fields[f])} |-> fields[k]])

\* a trait path as format v57 writes it: {"id": N, "path": "Name"}
DirectPath(id, name) == JObj([id |-> JNum(id), path |-> JStr(name)])

LeafTypes ==
    {JNull, JObj([generic |-> JStr(N_T)]), JObj([primitive |-> JStr(N_str)]),
     DirectPath(1, N_Error)}

\* the "traits" of a dyn_trait: missing, empty, one or two bounds, a bound without "trait"
DynTraitLists ==
    {Absent, JArr(<<>>),
     JArr(<<JObj([trait |-> DirectPath(1, N_Error)])>>),
     JArr(<<JObj([trait |-> DirectPath(1, N_Error)]),
            JObj([trait |-> DirectPath(2, N_Send)])>>),
     JArr(<<JObj([other |-> JNull]), JObj([trait |-> DirectPath(2, N_Send)])>>)}

\* the "trait" of a qualified_path: missing, null, a named path, a path with an
\* empty name, a path with a type argument
QualifiedTraits ==
    {Absent, JNull, DirectPath(1, N_Error), DirectPath(3, <<>>),
     JObj([id |-> JNum(2), path |-> JStr(N_Send),
           args |-> JObj([angle_bracketed |->
                     JObj([args |-> JArr(<<JObj([type |-> JObj([generic |-> JStr(N_T)])])>>)])])])}

RECURSIVE TypeNodes(_)
TypeNodes(d) ==
    IF d = 0 THEN LeafTypes
    ELSE LET inner == TypeNodes(d - 1) \cup {Absent}
         IN LeafTypes
            \cup {JObj([borrowed_ref |-> Obj([lifetime |-> lt, mutable |-> m, type |-> t])]) :
                    lt \in LifetimeVals, m \in MutableVals, t \in inner}
            \cup {JObj([dyn_trait |-> Obj([traits |-> ts, lifetime |-> lt])]) :
                    ts \in DynTraitLists, lt \in LifetimeVals}
            \cup {JObj([qualified_path |-> Obj([self_type |-> t, name |-> n, trait |-> tr])]) :
                    t \in inner, n \in {Absent, JStr(N_Item)}, tr \in QualifiedTraits}

\* values that are no type node, and objects whose shape key has the wrong type
MalformedLeaves ==
    {JNum(7), JStr(N_T), JBool(TRUE), JArr(<<>>), JArr(<<JNull>>), JObj(<<>>),
     JObj([other |-> JNull]),
     JObj([primitive |-> JNum(1)]), JObj([generic |-> JNull]),
     JObj([resolved_path |-> JStr(N_T)]), JObj([resolved_path |-> JObj(<<>>)]),
     JObj([borrowed_ref |-> JNull]), JObj([tuple |-> JNull]),
     JObj([slice |-> JNum(7)]), JObj([array |-> JStr(N_T)]),
     JObj([raw_pointer |-> JArr(<<>>)]), JObj([impl_trait |-> JStr(N_T)]),
     JObj([dyn_trait |-> JBool(TRUE)]), JObj([function_pointer |-> JObj(<<>>)]),
     JObj([function_pointer |-> JNull]), JObj([qualified_path |-> JNull]),
     JObj([id |-> JNum(1)]), JObj([id |-> JNum(1), path |-> JNum(7)])}

\* {"args": {"angle_bracketed": {"args": [...]}}}
AngleArgs(args) == JObj([angle_bracketed |-> JObj([args |-> JArr(args)])])

\* every composite shape around an inner node, with fields missing or mistyped
ShapesAround(t) ==
    {JObj([borrowed_ref |-> JObj([type |-> t, lifetime |-> JNum(1), mutable |-> JNull])]),
     JObj([tuple |-> JArr(<<t, JObj([generic |-> JStr(N_T)])>>)]),
     JObj([slice |-> t]),
     JObj([array |-> JObj([type |-> t, len |-> JStr(<<"3">>)])]),
     JObj([array |-> JObj([type |-> t, len |-> JNum(3)])]),
     JObj([raw_pointer |-> JObj([type |-> t, mutable |-> JBool(TRUE)])]),
     JObj([raw_pointer |-> JObj([type |-> t])]),
     JObj([impl_trait |-> JArr(<<JObj([trait_bound |-> JObj([trait |-> t])]),
                                 JObj([outlives |-> JStr(N_a)])>>)]),
     JObj([function_pointer |->
              JObj([sig |-> JObj([inputs |-> JArr(<<JArr(<<JStr(N_a), t>>), t,
                                                    JArr(<<JNum(1)>>)>>),
                                  output |-> t])])]),
     JObj([function_pointer |-> JObj([decl |-> JObj([inputs |-> JNull])])]),
     JObj([resolved_path |->
              JObj([name |-> JStr(N_Send),
                    args |-> AngleArgs(<<JObj([type |-> t]),
                                         JObj([lifetime |-> JStr(N_a)])>>)])]),
     JObj([resolved_path |-> JObj([path |-> JNum(1), args |-> JNull])]),
     JObj([qualified_path |-> JObj([self_type |-> t, name |-> JNum(1), trait |-> t])]),
     JObj([id |-> JNull, path |-> JStr(N_Send), args |-> AngleArgs(<<JObj([type |-> t])>>)])}

\* malformed nodes nested up to depth d
RECURSIVE MalformedNodes(_)
MalformedNodes(d) ==
    IF d = 0 THEN MalformedLeaves
    ELSE MalformedLeaves
         \cup UNION {ShapesAround(t) : t \in MalformedNodes(d - 1) \cup LeafTypes}

SearchIdle == doc = NoDoc /\ call = NoCall /\ results = <<>>
FeatIdle == attrs = <<>> /\ declared = {} /\ features = NotRun
TypeIdle == ty = JNull /\ rendered = NotRun
SigIdle ==
    /\ fn_item = [name |-> JNull, docs |-> JNull, attrs |-> <<>>, inner |-> JNull]
    /\ fn_sig = NotRun
    /\ item_generics = NotRun

NoTreeDoc == [index |-> <<>>, paths |-> <<>>, root |-> [t |-> "null"]]
TreeIdle == tree_doc = NoTreeDoc /\ tree = NotRun

FetchIdle ==
    server = <<>> /\ disk = <<>> /\ now = 0 /\ ticks = 0 /\ fetched = NotRun /\ served = NotRun

LookupIdle == lookup_doc = NoDoc /\ lookup = NotRun

MapIdle == parent_map = NotRun

IndexIdle == index_lines = <<>> /\ latest = NotRun

NoWalk ==
    [pc |-> "idle", filter |-> [t |-> "absent"], stack |-> <<>>, cursor |-> 0, deepest |-> 0,
     map |-> <<>>]
WalkIdle == walk_doc = NoTreeDoc /\ walk = NoWalk

\* the variables of the other parts are at rest while part f is exercised
OthersIdle(f) ==
    /\ f # "type" => TypeIdle
    /\ f # "search" => SearchIdle
    /\ f # "features" => FeatIdle
    /\ f # "signature" => SigIdle
    /\ f # "tree" => TreeIdle
    /\ f # "fetch" => FetchIdle
    /\ f # "lookup" => LookupIdle
    /\ f # "map" => MapIdle
    /\ f # "index" => IndexIdle
    /\ f # "walk" => WalkIdle

OthersUnchanged(f) ==
    /\ IF f = "type" THEN TRUE ELSE UNCHANGED typeVars
    /\ IF f = "search" THEN TRUE ELSE UNCHANGED searchVars
    /\ IF f = "features" THEN TRUE ELSE UNCHANGED featVars
    /\ IF f = "signature" THEN TRUE ELSE UNCHANGED sigVars
    /\ IF f = "tree" THEN TRUE ELSE UNCHANGED treeVars
    /\ IF f = "fetch" THEN TRUE ELSE UNCHANGED fetchVars
    /\ IF f = "lookup" THEN TRUE ELSE UNCHANGED lookupVars
    /\ IF f = "map" THEN TRUE ELSE UNCHANGED mapVars
    /\ IF f = "index" THEN TRUE ELSE UNCHANGED indexVars
    /\ IF f = "walk" THEN TRUE ELSE UNCHANGED walkVars

TypeInit ==
    /\ ty \in TypeNodes(TypeDepth) \cup MalformedNodes(TypeDepth)
    /\ rendered = NotRun
    /\ OthersIdle("type")

\* one call of type_to_string
Render ==
    /\ rendered = NotRun
    /\ rendered' = [run |-> TRUE, out |-> type_to_string(ty)]
    /\ UNCHANGED ty
    /\ OthersUnchanged("type")

TypeNext == Render

SpecType == TypeInit /\ [][TypeNext]_vars

-----------------------------------------------------------------------------
(* Properties of the type renderer (checked under SpecType) *)

\* a lifetime field that gives no lifetime: missing, null, not a string, or empty
NoLifetime(lt) == ~IsStr(lt) \/ Len(lt.v) = 0

\* the lifetime's name: the raw string without its one leading marker
LifetimeName(lt) == IF starts_with(lt.v, S_apos) THEN Tail(lt.v) ELSE lt.v

\* a raw lifetime of the form `name` or `'name`, the name itself free of markers
PlainLifetime(lt) ==
    /\ IsStr(lt)
    /\ Len(LifetimeName(lt)) > 0
    /\ \A i \in 1..Len(LifetimeName(lt)) : LifetimeName(lt)[i] # "'"

\* every lifetime in the node, nested ones included, is missing or plain
RECURSIVE PlainLifetimes(_)
PlainLifetimes(x) ==
    IF Present(Get(x, "borrowed_ref"))
    THEN LET br == Get(x, "borrowed_ref")
         IN /\ NoLifetime(Get(br, "lifetime")) \/ PlainLifetime(Get(br, "lifetime"))
            /\ PlainLifetimes(Get(br, "type"))
    ELSE IF Present(Get(x, "dyn_trait"))
    THEN LET lt == Get(Get(x, "dyn_trait"), "lifetime")
         IN NoLifetime(lt) \/ PlainLifetime(lt)
    ELSE IF Present(Get(x, "qualified_path"))
    THEN PlainLifetimes(Get(Get(x, "qualified_path"), "self_type"))
    ELSE TRUE

MutStrOf(x) == IF BoolOrFalse(Get(x, "mutable")) THEN S_mut_sp ELSE S_empty

\* C8: for a borrowed_ref node the rendering is `&'name ` + `mut `? + inner for a
\* raw lifetime given as `name` or as `'name` alike (one marker before the name),
\* `&` + `mut `? + inner when the lifetime is missing, null or empty, and the
\* output holds no `''`.
C8_RefLifetimeOneMarker ==
    (rendered.run /\ Present(Get(ty, "borrowed_ref"))) =>
        LET br == Get(ty, "borrowed_ref")
            lt == Get(br, "lifetime")
            inner == type_or_underscore(br, "type")
        IN /\ NoLifetime(lt) => rendered.out = S_amp \o MutStrOf(br) \o inner
           /\ PlainLifetime(lt) =>
                 rendered.out = S_amp \o S_apos \o LifetimeName(lt) \o S_space
                                \o MutStrOf(br) \o inner
           /\ PlainLifetimes(ty) => ~contains(rendered.out, S_apos \o S_apos)

\* C8 witness: a reference whose raw lifetime carries its marker was rendered `&'a T`
C8_Witness ==
    /\ rendered.run
    /\ Present(Get(ty, "borrowed_ref"))
    /\ Get(Get(ty, "borrowed_ref"), "lifetime") = JStr(S_apos \o N_a)
    /\ rendered.out = <<"&", "'", "a", " ", "T">>

\* C9: for a dyn_trait node with a non-empty lifetime given as `name` or `'name`,
\* the rendering is `dyn Bounds + 'name`, one marker before the lifetime name.
C9_DynLifetimeOneMarker ==
    (rendered.run /\ Present(Get(ty, "dyn_trait"))
       /\ PlainLifetime(Get(Get(ty, "dyn_trait"), "lifetime"))) =>
        LET dt == Get(ty, "dyn_trait")
        IN rendered.out = S_dyn_sp \o dyn_traits_of(dt) \o S_plus \o S_apos
                          \o LifetimeName(Get(dt, "lifetime"))

\* C10: a qualified_path renders `Self::Name` when the trait is missing or null and
\* `<Self as Trait>::Name` when a non-null trait is there, and no rendering has a
\* placeholder `_` or `()` in the trait position after `as`.
C10_QualifiedPathNoPlaceholder ==
    (rendered.run /\ Present(Get(ty, "qualified_path"))) =>
        LET qp == Get(ty, "qualified_path")
            self_type == type_or_underscore(qp, "self_type")
            name == StrOr(Get(qp, "name"), S_underscore)
            tr == Get(qp, "trait")
        IN /\ (~Present(tr) \/ IsNull(tr)) =>
                 rendered.out = self_type \o S_colons \o name
           /\ (Present(tr) /\ ~IsNull(tr)) =>
                 rendered.out = S_lt \o self_type \o S_as \o type_to_string(tr)
                                \o S_gt_colons \o name
           /\ ~contains(rendered.out, S_as \o S_underscore \o S_gt)
           /\ ~contains(rendered.out, S_as \o S_unit \o S_gt)

\* C10 (amended): a qualified_path renders `Self::Name` when the trait is missing
\* or null and `<Self as Trait>::Name`, Trait being the trait's own rendering, when
\* a non-null trait is there; a placeholder `_` or `()` follows `as` only where the
\* given trait itself renders as that placeholder, never for a missing or null trait.
C10_QualifiedPathShorthand ==
    (rendered.run /\ Present(Get(ty, "qualified_path"))) =>
        LET qp == Get(ty, "qualified_path")
            self_type == type_or_underscore(qp, "self_type")
            name == StrOr(Get(qp, "name"), S_underscore)
            tr == Get(qp, "trait")
            as_us == S_as \o S_underscore \o S_gt
            as_unit == S_as \o S_unit \o S_gt
        IN /\ (~Present(tr) \/ IsNull(tr)) =>
                 /\ rendered.out = self_type \o S_colons \o name
                 /\ contains(rendered.out, as_us) => contains(self_type, as_us)
                 /\ contains(rendered.out, as_unit) => contains(self_type, as_unit)
           /\ (Present(tr) /\ ~IsNull(tr)) =>
                 /\ rendered.out = S_lt \o self_type \o S_as \o type_to_string(tr)
                                   \o S_gt_colons \o name
                 /\ contains(rendered.out, as_us) =>
                       contains(self_type, as_us) \/ type_to_string(tr) = S_underscore
                 /\ contains(rendered.out, as_unit) =>
                       contains(self_type, as_unit) \/ type_to_string(tr) = S_unit

\* C10 witness: a qualified path with a null trait was rendered as the shorthand
C10_Witness ==
    /\ rendered.run
    /\ Present(Get(ty, "qualified_path"))
    /\ IsNull(Get(Get(ty, "qualified_path"), "trait"))
    /\ rendered.out = <<"T", ":", ":", "I", "t", "e", "m">>

\* the characters of the model's strings
Chars == {AsciiOrder[i] : i \in 1..Len(AsciiOrder)} \cup {"\n"}

\* a node that has none of the shapes the renderer knows
NoKnownShape(x) ==
    /\ ~IsNull(x)
    /\ \/ ~IsObj(x)
       \/ /\ ~IsStr(Get(x, "primitive"))
          /\ ~IsStr(Get(x, "generic"))
          /\ \A k \in {"resolved_path", "borrowed_ref", "slice", "array", "raw_pointer",
                       "dyn_trait", "qualified_path"} : ~Present(Get(x, k))
          /\ ~IsArr(Get(x, "tuple"))
          /\ ~IsArr(Get(x, "impl_trait"))
          /\ ~Present(Get(Get(x, "function_pointer"), "sig"))
          /\ ~Present(Get(Get(x, "function_pointer"), "decl"))
          /\ ~(Present(Get(x, "id")) /\ IsStr(Get(x, "path")))

\* C11: type_to_string returns a string for every value, whatever is missing or
\* mistyped in it at any nesting level, and a value of no known shape is rendered
\* as its raw JSON dump.
C11_RenderTotal ==
    rendered # NotRun =>
        /\ rendered.run
        /\ rendered.out \in Seq(Chars)
        /\ NoKnownShape(ty) => rendered.out = to_string(ty)

\* C11 witness: an object with an unknown key was rendered as its dump
C11_Witness ==
    /\ rendered # NotRun
    /\ ty = JObj([other |-> JNull])
    /\ rendered.out = <<"{","\"","o","t","h","e","r","\"",":","n","u","l","l","}">>

-----------------------------------------------------------------------------
(* Document model: types.rs *)

S_function == <<"f","u","n","c","t","i","o","n">>
S_module == <<"m","o","d","u","l","e">>
S_type_alias == <<"t","y","p","e","_","a","l","i","a","s">>
S_method == <<"m","e","t","h","o","d">>
S_struct == <<"s","t","r","u","c","t">>
S_fn == <<"f","n">>
S_mod == <<"m","o","d">>
S_type == <<"t","y","p","e">>

\* Item::kind: the first key of `inner` when it is an object with a key
HasKind(item) == IsObj(item.inner) /\ DOMAIN item.inner.v # {}
KindKey(item) == SortedKeys(DOMAIN item.inner.v)[1]

\* Item::kind() == Some(k)
KindIs(item, k) == HasKind(item) /\ KindKey(item) = k

\* Item::inner_for(kind)
inner_for(item, k) == Get(item.inner, k)

\* str::lines: split at "\n", a final empty piece dropped
RECURSIVE lines(_)
lines(s) ==
    IF Len(s) = 0 THEN <<>>
    ELSE IF \E i \in 1..Len(s) : s[i] = "\n"
    THEN LET i == CHOOSE k \in 1..Len(s) :
                     s[k] = "\n" /\ \A m \in 1..(k - 1) : s[m] # "\n"
         IN <<SubSeq(s, 1, i - 1)>> \o lines(SubSeq(s, i + 1, Len(s)))
    ELSE <<s>>

\* l.trim().is_empty()
IsBlank(l) == \A i \in 1..Len(l) : l[i] \in {" ", "\t", "\r"}

\* Item::doc_summary: the first line of the docs that is not blank
doc_summary(item) ==
    LET text == StrOr(item.docs, S_empty)
        nonblank == SelectSeq(lines(text), LAMBDA l : ~IsBlank(l))
    IN IF Len(nonblank) > 0 THEN nonblank[1] ELSE S_empty

\* Item::attr_strings: the "other" strings of the attrs
attr_strings(item) ==
    LET ok == SelectSeq(item.attrs, LAMBDA a : IsStr(Get(a, "other")))
    IN [i \in 1..Len(ok) |-> Get(ok[i], "other").v]

\* PathEntry::full_path
full_path(p) == join(p.path, S_colons)

\* PathEntry::kind_name
kind_name(p) == p.kind

\* id_val_to_string: a string id as it is, a number as its decimal text
IdIsText(id_val) == id_val.t = "str" \/ id_val.t = "num"
id_val_to_string(id_val) ==
    IF id_val.t = "str" THEN id_val.v ELSE num_to_string(id_val.v)

\* doc.index as the list of its entries in the HashMap's iteration order
IndexIds(d) == {d.index[i].id : i \in 1..Len(d.index)}

-----------------------------------------------------------------------------
(* Feature flag extraction: parser.rs, extract_feature_requirements *)

\* the literal head of the regex: name: "feature", value: Some("
RE_head ==
    <<"n","a","m","e",":"," ","\"","f","e","a","t","u","r","e","\"",","," ",
      "v","a","l","u","e",":"," ","S","o","m","e","(","\"">>

\* the literal tail of the regex: ")
RE_tail == <<"\"",")">>

\* the end of the longest run of characters other than `"` that starts at `from`
\* (from - 1 when the run is empty): the greedy match of [^"]+
RunEnd(s, from) ==
    IF \E j \in from..Len(s) : s[j] = "\""
    THEN (CHOOSE j \in from..Len(s) :
              s[j] = "\"" /\ \A m \in from..(j - 1) : s[m] # "\"") - 1
    ELSE Len(s)

\* whether the regex matches with its first character at position i
MatchesAt(s, i) ==
    /\ i + Len(RE_head) - 1 <= Len(s)
    /\ SubSeq(s, i, i + Len(RE_head) - 1) = RE_head
    /\ LET from == i + Len(RE_head)
           e == RunEnd(s, from)
       IN /\ e >= from
          /\ e + 2 <= Len(s)
          /\ SubSeq(s, e + 1, e + 2) = RE_tail

\* re.captures_iter(attr): group 1 of the successive non-overlapping matches, leftmost first
RECURSIVE captures_iter(_, _)
captures_iter(s, pos) ==
    IF pos > Len(s) THEN <<>>
    ELSE IF MatchesAt(s, pos)
    THEN LET from == pos + Len(RE_head)
             e == RunEnd(s, from)
         IN <<SubSeq(s, from, e)>> \o captures_iter(s, e + 3)
    ELSE captures_iter(s, pos + 1)

\* Mutant of retain_declared: an empty declared set filters everything out
retain_declared_always(found, declared_features) ==
    SelectSeq(found, LAMBDA f : f \in declared_features)

\* Vec<String>::retain(|f| declared_features.contains(f)), only for a non-empty set
retain_declared(found, declared_features) ==
    IF declared_features # {}
    THEN SelectSeq(found, LAMBDA f : f \in declared_features)
    ELSE found

\* Vec<String>::sort: stable, ascending by byte order
RECURSIVE sort_strings(_)
sort_strings(v) ==
    IF Len(v) <= 1 THEN v
    ELSE LET rest == sort_strings(SubSeq(v, 1, Len(v) - 1))
             x == v[Len(v)]
             \* x goes after every element that is not greater than it
             keep == SelectSeq(rest, LAMBDA y : ~StrLess(x, y))
             after == SelectSeq(rest, LAMBDA y : StrLess(x, y))
         IN keep \o <<x>> \o after

\* Vec::dedup: of each run of equal neighbours the first stays
RECURSIVE dedup(_)
dedup(v) ==
    IF Len(v) <= 1 THEN v
    ELSE LET front == dedup(SubSeq(v, 1, Len(v) - 1))
         IN IF v[Len(v)] = v[Len(v) - 1] THEN front ELSE front \o <<v[Len(v)]>>

extract_feature_requirements(attr_list, declared_features) ==
    LET found == Concat([i \in 1..Len(attr_list) |-> captures_iter(attr_list[i], 1)])
    IN dedup(sort_strings(retain_declared(found, declared_features)))

\* The attribute strings drawn: up to MaxPieces pieces, cut into strings at "|"
MaxPieces == 5

N_b == <<"b">>
N_aa == <<"a","a">>

PieceText(p) ==
    CASE p = "Fa" -> RE_head \o N_a \o RE_tail
      [] p = "Fb" -> RE_head \o N_b \o RE_tail
      [] p = "H" -> RE_head
      [] p = "a" -> N_a
      [] p = "T" -> RE_tail

PieceNames == {"Fa", "Fb", "H", "a", "T", "|"}

\* the strings spelled by a piece list: a new string starts after each "|"
RECURSIVE SplitPieces(_)
SplitPieces(ps) ==
    IF \E i \in 1..Len(ps) : ps[i] = "|"
    THEN LET i == CHOOSE k \in 1..Len(ps) : ps[k] = "|" /\ \A m \in 1..(k - 1) : ps[m] # "|"
         IN <<Concat([k \in 1..(i - 1) |-> PieceText(ps[k])])>>
            \o SplitPieces(SubSeq(ps, i + 1, Len(ps)))
    ELSE <<Concat([k \in 1..Len(ps) |-> PieceText(ps[k])])>>

AttrLists ==
    {<<>>} \cup {SplitPieces(ps) : ps \in UNION {[1..k -> PieceNames] : k \in 0..MaxPieces}}

DeclaredSets == {{}, {N_a}, {N_b, N_aa}}

FeatInit ==
    /\ attrs \in AttrLists
    /\ declared \in DeclaredSets
    /\ features = NotRun
    /\ OthersIdle("features")

\* one call of extract_feature_requirements
Extract ==
    /\ features = NotRun
    /\ features' = [run |-> TRUE, out |-> extract_feature_requirements(attrs, declared)]
    /\ UNCHANGED <<attrs, declared>>
    /\ OthersUnchanged("features")

FeatNext == Extract

SpecFeat == FeatInit /\ [][FeatNext]_vars

\* the flags of one attribute string by the pattern itself: every place where the
\* head is followed by one or more characters other than `"` and then `")`
PatternFlags(a) ==
    UNION {{SubSeq(a, i + Len(RE_head), j - 1) :
              j \in {j \in (i + Len(RE_head) + 1)..(Len(a) - 1) :
                       /\ a[j] = "\"" /\ a[j + 1] = ")"
                       /\ \A m \in (i + Len(RE_head))..(j - 1) : a[m] # "\""}} :
           i \in {i \in 1..(Len(a) - Len(RE_head) + 1) :
                    SubSeq(a, i, i + Len(RE_head) - 1) = RE_head}}

MatchedFlags(attr_list) == UNION {PatternFlags(attr_list[i]) : i \in 1..Len(attr_list)}

SeqRange(v) == {v[i] : i \in 1..Len(v)}

\* C7: the flags returned are flags the pattern matches: all of them when the
\* declared set is empty, those of them that are declared otherwise; the list is
\* strictly ascending in byte order, so sorted and without duplicates.
C7_FeaturesFiltered ==
    features.run =>
        /\ SeqRange(features.out) \subseteq MatchedFlags(attrs)
        /\ declared # {} => SeqRange(features.out) = MatchedFlags(attrs) \cap declared
        /\ declared = {} => SeqRange(features.out) = MatchedFlags(attrs)
        /\ \A i \in 1..(Len(features.out) - 1) :
              StrLess(features.out[i], features.out[i + 1])

\* C7 witness: two strings that gate on "b", then "a", then "a" again, with no
\* declared set: the call returned <<"a", "b">>
C7_Witness ==
    /\ features.run
    /\ declared = {}
    /\ attrs = <<PieceText("Fb") \o PieceText("Fa"), PieceText("Fa")>>
    /\ features.out = <<N_a, N_b>>

-----------------------------------------------------------------------------
(* Signature reconstruction: parser.rs, function_signature *)

S_fn_sp == <<"f","n"," ">>
S_const_sp == <<"c","o","n","s","t"," ">>
S_async_sp == <<"a","s","y","n","c"," ">>
S_unsafe_sp == <<"u","n","s","a","f","e"," ">>
S_self == <<"s","e","l","f">>
S_Self == <<"S","e","l","f">>
S_where == <<"\n","w","h","e","r","e","\n"," "," "," "," ">>
S_where_sep == <<",","\n"," "," "," "," ">>

\* filter_map: the values of the options that are present, in order
filter_map_present(opts) ==
    LET kept == SelectSeq(opts, LAMBDA o : Present(o))
    IN [i \in 1..Len(kept) |-> kept[i].v]

\* lines 338-342: `name`, or `name: bounds` when there are bounds
name_with_bounds(name, bounds) ==
    IF Len(bounds) = 0 THEN JStr(name) ELSE JStr(name \o S_colon_sp \o bounds)

\* Mutant of generic_param_string: an `impl ...` parameter is not skipped
generic_param_string_keeps_synthetic(p) ==
    IF ~IsStr(Get(p, "name")) THEN Absent
    ELSE IF Present(Get(Get(p, "kind"), "const"))
    THEN JStr(S_const_sp \o Get(p, "name").v \o S_colon_sp
              \o type_or_underscore(Get(Get(p, "kind"), "const"), "type"))
    ELSE JStr(Get(p, "name").v)

\* lines 316-349: one generic parameter, or Absent when it is filtered out
generic_param_string(p) ==
    IF ~IsStr(Get(p, "name")) THEN Absent
    ELSE IF starts_with(Get(p, "name").v, S_impl_sp) THEN Absent
    ELSE IF Present(Get(Get(p, "kind"), "const"))
    THEN JStr(S_const_sp \o Get(p, "name").v \o S_colon_sp
              \o type_or_underscore(Get(Get(p, "kind"), "const"), "type"))
    ELSE IF Present(Get(Get(Get(p, "kind"), "type"), "bounds"))
    THEN name_with_bounds(Get(p, "name").v,
             IF IsArr(Get(Get(Get(p, "kind"), "type"), "bounds"))
             THEN join(trait_bound_strings(Get(Get(Get(p, "kind"), "type"), "bounds").v),
                       S_plus)
             ELSE S_empty)
    ELSE JStr(Get(p, "name").v)

\* lines 352-356: `<P, ...>`, or nothing without parameters
angle_list(parts) ==
    IF Len(parts) = 0 THEN S_empty ELSE S_lt \o join(parts, S_comma) \o S_gt

\* lines 303-357: `<P, ...>` of the parameters that are kept, or nothing
format_generics(generics) ==
    IF ~Present(generics) THEN S_empty
    ELSE IF ~IsArr(Get(generics, "params")) THEN S_empty
    ELSE angle_list(filter_map_present(
             [i \in 1..Len(Get(generics, "params").v) |->
                 generic_param_string(Get(generics, "params").v[i])]))

\* Mutant of type_with_bounds: a predicate without bounds is kept
type_with_bounds_kept(ty_str, bound_strs) ==
    JStr(ty_str \o S_colon_sp \o join(bound_strs, S_plus))

\* lines 382-386: `type: bounds`, or Absent without bounds
type_with_bounds(ty_str, bound_strs) ==
    IF Len(bound_strs) = 0 THEN Absent
    ELSE JStr(ty_str \o S_colon_sp \o join(bound_strs, S_plus))

\* lines 372-389: one where clause, or Absent when it is filtered out
where_clause_string(c) ==
    IF ~Present(Get(c, "bound_predicate")) THEN Absent
    ELSE IF ~Present(Get(Get(c, "bound_predicate"), "type")) THEN Absent
    ELSE IF ~IsArr(Get(Get(c, "bound_predicate"), "bounds")) THEN Absent
    ELSE type_with_bounds(type_to_string(Get(Get(c, "bound_predicate"), "type")),
                          trait_bound_strings(Get(Get(c, "bound_predicate"), "bounds").v))

\* lines 391-395: the where block, or nothing without clauses
where_block(parts) ==
    IF Len(parts) = 0 THEN S_empty ELSE S_where \o join(parts, S_where_sep)

\* lines 359-396: the where block of the clauses that are kept, or nothing
format_where(generics) ==
    IF ~Present(generics) THEN S_empty
    ELSE IF ~IsArr(Get(generics, "where_predicates")) THEN S_empty
    ELSE where_block(filter_map_present(
             [i \in 1..Len(Get(generics, "where_predicates").v) |->
                 where_clause_string(Get(generics, "where_predicates").v[i])]))

\* Mutant of named_param: the receiver is written like any other parameter
named_param_plain(param_name, pty) == param_name \o S_colon_sp \o pty

\* lines 231-240: a parameter, the self receiver in its idiomatic form
named_param(param_name, pty) ==
    IF param_name = S_self
    THEN IF pty = S_Self THEN S_self
         ELSE IF pty = S_amp \o S_Self THEN S_amp \o S_self
         ELSE IF pty = S_amp \o S_mut_sp \o S_Self THEN S_amp \o S_mut_sp \o S_self
         ELSE S_self \o S_colon_sp \o pty
    ELSE param_name \o S_colon_sp \o pty

\* lines 227-241: one [name, type] pair of the inputs
param_string(pair) ==
    named_param(IF Len(pair) >= 1 THEN StrOr(pair[1], S_underscore) ELSE S_underscore,
                IF Len(pair) >= 2 THEN type_to_string(pair[2]) ELSE S_underscore)

\* lines 222-245: the parameters, joined with `, `
signature_inputs(inputs) ==
    IF IsArr(inputs)
    THEN LET pairs == SelectSeq(inputs.v, LAMBDA i : IsArr(i))
         IN join([i \in 1..Len(pairs) |-> param_string(pairs[i].v)], S_comma)
    ELSE S_empty

\* lines 258-261: ` -> T`, nothing for the unit type
arrow_output(s) == IF s # S_unit THEN S_arrow \o s ELSE S_empty

\* lines 247-249, 258-261
signature_output(output) ==
    IF Present(output) /\ ~IsNull(output) THEN arrow_output(type_to_string(output))
    ELSE S_empty

\* lines 205-208, 253-256: const, async, unsafe, in this order
signature_prefix(header) ==
    (IF BoolOrFalse(Get(header, "is_const")) THEN S_const_sp ELSE S_empty)
    \o (IF BoolOrFalse(Get(header, "is_async")) THEN S_async_sp ELSE S_empty)
    \o (IF BoolOrFalse(Get(header, "is_unsafe")) THEN S_unsafe_sp ELSE S_empty)

\* lines 199-264
function_signature(item) ==
    IF ~Present(inner_for(item, "function")) THEN S_empty
    ELSE IF ~Present(Get(inner_for(item, "function"), "sig")) THEN S_empty
    ELSE signature_prefix(Get(inner_for(item, "function"), "header"))
         \o S_fn_sp \o StrOr(item.name, S_underscore)
         \o format_generics(Get(inner_for(item, "function"), "generics"))
         \o S_lparen
         \o signature_inputs(Get(Get(inner_for(item, "function"), "sig"), "inputs"))
         \o S_rparen
         \o signature_output(Get(Get(inner_for(item, "function"), "sig"), "output"))
         \o format_where(Get(inner_for(item, "function"), "generics"))

-----------------------------------------------------------------------------
(* Method parent map: parser.rs, type_item_id and build_method_parent_map *)

\* lines 565-578: the item id inside a type node, as a string, or Absent
type_item_id(val) ==
    IF Present(Get(val, "resolved_path"))
    THEN LET id == Get(Get(val, "resolved_path"), "id")
         IN IF IdIsText(id) THEN JStr(id_val_to_string(id)) ELSE Absent
    ELSE IF IdIsText(Get(val, "id")) /\ Present(Get(val, "path"))
    THEN JStr(id_val_to_string(Get(val, "id")))
    ELSE Absent

\* lines 598-603: the parent path of an impl's `for` type: the path table's
\* full path when the type has an id listed there, else the rendered type
parent_path_of(d, for_val) ==
    LET id == type_item_id(for_val)
    IN IF Present(id) /\ id.v \in DOMAIN d.paths
       THEN full_path(d.paths[id.v])
       ELSE type_to_string(for_val)

\* Mutant of maps_methods: the methods of trait impls are mapped too
maps_methods_any_impl(d, item) ==
    /\ KindIs(item, "impl")
    /\ Present(Get(inner_for(item, "impl"), "for"))
    /\ Len(parent_path_of(d, Get(inner_for(item, "impl"), "for"))) > 0

\* lines 589-596, 603: whether an item is an inherent impl whose methods are mapped
maps_methods(d, item) ==
    /\ KindIs(item, "impl")
    /\ LET trait_val == Get(inner_for(item, "impl"), "trait")
       IN IF Present(trait_val) THEN IsNull(trait_val) ELSE TRUE
    /\ Present(Get(inner_for(item, "impl"), "for"))
    /\ Len(parent_path_of(d, Get(inner_for(item, "impl"), "for"))) > 0

\* lines 605-614: the ids an impl lists in `items`
method_ids(impl_inner) ==
    IF IsArr(Get(impl_inner, "items"))
    THEN LET listed == Get(impl_inner, "items").v
         IN {id_val_to_string(listed[i]) :
                i \in {k \in 1..Len(listed) : IdIsText(listed[k])}}
    ELSE {}

\* HashMap::insert of one parent path under each of the ids
insert_all(map, ids, parent_path) ==
    [k \in DOMAIN map \cup ids |-> IF k \in ids THEN parent_path ELSE map[k]]

\* lines 584-619, the loop over the first n entries of the index
RECURSIVE method_parent_map_upto(_, _)
method_parent_map_upto(d, n) ==
    IF n = 0 THEN <<>>
    ELSE LET map == method_parent_map_upto(d, n - 1)
             item == d.index[n].item
         IN IF maps_methods(d, item)
            THEN insert_all(map, method_ids(inner_for(item, "impl")),
                            parent_path_of(d, Get(inner_for(item, "impl"), "for")))
            ELSE map

\* lines 584-619
build_method_parent_map(d) == method_parent_map_upto(d, Len(d.index))

-----------------------------------------------------------------------------
(* Item search: parser.rs, search_items.  Scores are in tenths (1.0 is 10).  *)
(* A result carries, besides the fields of SearchResult, the id of the index *)
(* entry it was made from and its position in the vector before the sort.    *)

\* Mutant of normalized: the kind filter is compared as it was given
normalized_as_given(kf) == kf

\* lines 656-661: the user-friendly aliases of the kind names
normalized(kf) ==
    IF kf = S_fn THEN S_function
    ELSE IF kf = S_mod THEN S_module
    ELSE IF kf = S_type THEN S_type_alias
    ELSE kf

\* lines 684-694: the score of a named item, 0 when it does not match
item_score(name_lower, doc_lower, query_lower) ==
    IF name_lower = query_lower THEN 10
    ELSE IF starts_with(name_lower, query_lower) THEN 9
    ELSE IF contains(name_lower, query_lower) THEN 7
    ELSE IF contains(doc_lower, query_lower) THEN 2
    ELSE 0

\* Mutant of method_score: the parent type is looked at before the name
method_score_parent_first(name_lower, parent_lower, doc_lower, query_lower) ==
    IF contains(parent_lower, query_lower) THEN 6
    ELSE IF name_lower = query_lower THEN 10
    ELSE IF starts_with(name_lower, query_lower) THEN 9
    ELSE IF contains(name_lower, query_lower) THEN 7
    ELSE IF contains(doc_lower, query_lower) THEN 4
    ELSE 0

\* Mutant of method_score: the parent type is not looked at
method_score_ignores_parent(name_lower, parent_lower, doc_lower, query_lower) ==
    IF name_lower = query_lower THEN 10
    ELSE IF starts_with(name_lower, query_lower) THEN 9
    ELSE IF contains(name_lower, query_lower) THEN 7
    ELSE IF contains(doc_lower, query_lower) THEN 4
    ELSE 0

\* lines 739-751: the score of a method, 0 when it does not match
method_score(name_lower, parent_lower, doc_lower, query_lower) ==
    IF name_lower = query_lower THEN 10
    ELSE IF starts_with(name_lower, query_lower) THEN 9
    ELSE IF contains(name_lower, query_lower) THEN 7
    ELSE IF contains(parent_lower, query_lower) THEN 6
    ELSE IF contains(doc_lower, query_lower) THEN 4
    ELSE 0

\* lines 655-665: the kind filter of the first pass
kind_ok(item_kind, kind_filter) ==
    IF Present(kind_filter) THEN item_kind = normalized(kind_filter.v) ELSE TRUE

\* Mutant of prefix_ok: no prefix filter
prefix_ok_always(path, module_prefix) == TRUE

\* lines 668-672 and 730-732: the module prefix filter
prefix_ok(path, module_prefix) ==
    IF Present(module_prefix) THEN starts_with(path, module_prefix.v) ELSE TRUE

\* lines 696-699
item_signature(item, item_kind, name) ==
    IF KindIs(item, "function") THEN function_signature(item)
    ELSE item_kind \o S_space \o name

\* lines 644-711, one turn of the loop: whether the entry is pushed
item_found(d, e, c) ==
    /\ e.id \in DOMAIN d.paths
    /\ kind_ok(kind_name(d.paths[e.id]), c.kind_filter)
    /\ prefix_ok(full_path(d.paths[e.id]), c.module_prefix)
    /\ Len(StrOr(e.item.name, S_empty)) > 0
    /\ item_score(to_lowercase(StrOr(e.item.name, S_empty)),
                  to_lowercase(doc_summary(e.item)), to_lowercase(c.query)) > 0

\* lines 701-709: the result pushed for a named item
item_result(d, e, c) ==
    [path |-> full_path(d.paths[e.id]),
     kind |-> kind_name(d.paths[e.id]),
     signature |-> item_signature(e.item, kind_name(d.paths[e.id]),
                                  StrOr(e.item.name, S_empty)),
     doc_summary |-> doc_summary(e.item),
     feature_requirements |->
         extract_feature_requirements(attr_strings(e.item), c.declared_features),
     score |-> item_score(to_lowercase(StrOr(e.item.name, S_empty)),
                          to_lowercase(doc_summary(e.item)), to_lowercase(c.query)),
     id |-> e.id]

\* Mutant of want_methods: the method pass always runs
want_methods_always(kind_filter) == TRUE

\* line 716
want_methods(kind_filter) ==
    IF Present(kind_filter) THEN kind_filter.v = S_method ELSE TRUE

\* lines 721-753, one turn of the loop: whether the entry is pushed
method_found(d, map, e, c) ==
    /\ e.id \notin DOMAIN d.paths
    /\ KindIs(e.item, "function")
    /\ e.id \in DOMAIN map
    /\ Len(StrOr(e.item.name, S_empty)) > 0
    /\ prefix_ok(map[e.id], c.module_prefix)
    /\ method_score(to_lowercase(StrOr(e.item.name, S_empty)),
                    to_lowercase(map[e.id]),
                    to_lowercase(doc_summary(e.item)), to_lowercase(c.query)) > 0

\* lines 753-764: the result pushed for a method
method_result(map, e, c) ==
    [path |-> map[e.id] \o S_colons \o StrOr(e.item.name, S_empty),
     kind |-> S_method,
     signature |-> function_signature(e.item),
     doc_summary |-> doc_summary(e.item),
     feature_requirements |->
         extract_feature_requirements(attr_strings(e.item), c.declared_features),
     score |-> method_score(to_lowercase(StrOr(e.item.name, S_empty)),
                            to_lowercase(map[e.id]),
                            to_lowercase(doc_summary(e.item)), to_lowercase(c.query)),
     id |-> e.id]

\* lines 701-710: the results pushed for the entries that are found
item_results(d, hit, c) == [i \in 1..Len(hit) |-> item_result(d, hit[i], c)]

\* lines 644-711: the results of the first pass, in the order of the index
first_pass(d, c) ==
    item_results(d, SelectSeq(d.index, LAMBDA e : item_found(d, e, c)), c)

\* lines 753-764: the results pushed for the methods that are found
method_results(map, hit, c) == [i \in 1..Len(hit) |-> method_result(map, hit[i], c)]

\* lines 721-765: the loop of the method pass, given the method parent map
methods_of(d, map, c) ==
    method_results(map, SelectSeq(d.index, LAMBDA e : method_found(d, map, e, c)), c)

\* lines 716-766: the results of the method pass, in the order of the index
second_pass(d, c) ==
    IF want_methods(c.kind_filter) THEN methods_of(d, build_method_parent_map(d), c)
    ELSE <<>>

\* a vector of results, each entry with its position
with_seq(found) == [i \in 1..Len(found) |-> [seq |-> i] @@ found[i]]

\* the vector `results` before the sort
candidates(d, c) == with_seq(first_pass(d, c) \o second_pass(d, c))

\* Mutant of sort_by_score: an entry goes before the entries of its own score
RECURSIVE sort_by_score_unstable(_)
sort_by_score_unstable(v) ==
    IF Len(v) = 0 THEN <<>>
    ELSE LET head == sort_by_score_unstable(SubSeq(v, 1, Len(v) - 1))
             x == v[Len(v)]
             k == Cardinality({i \in 1..Len(head) : head[i].score > x.score})
         IN SubSeq(head, 1, k) \o <<x>> \o SubSeq(head, k + 1, Len(head))

\* line 769: sort_by on the score, descending; the sort is stable, so an entry
\* goes behind the entries that compare greater or equal and were there before
RECURSIVE sort_by_score(_)
sort_by_score(v) ==
    IF Len(v) = 0 THEN <<>>
    ELSE LET head == sort_by_score(SubSeq(v, 1, Len(v) - 1))
             x == v[Len(v)]
             k == Cardinality({i \in 1..Len(head) : head[i].score >= x.score})
         IN SubSeq(head, 1, k) \o <<x>> \o SubSeq(head, k + 1, Len(head))

\* line 770: Vec::truncate
truncate(v, limit) == SubSeq(v, 1, IF limit < Len(v) THEN limit ELSE Len(v))

\* Mutant of sort_and_truncate: the vector is cut before it is sorted
truncate_and_sort(v, limit) == sort_by_score(truncate(v, limit))

\* lines 769-770
sort_and_truncate(v, limit) == truncate(sort_by_score(v), limit)

\* lines 633-772
search_items(d, c) == sort_and_truncate(candidates(d, c), c.limit)

-----------------------------------------------------------------------------
(* The documents and the calls the search is checked on *)

NumItems == 3
MaxLimit == 2

N_Ab == <<"A","b">>
N_ab == <<"a","b">>
N_x == <<"x">>
N_k == <<"k">>
N_j == <<"j">>
N_AB == <<"A","B">>
S_k_colons == <<"k",":",":">>
S_k_Ab_colons == <<"k",":",":","A","b",":",":">>
S_docs_ab_c == <<"\n","a","b"," ","c">>

\* an Item of the index
Item(name, docs, attr_list, inner) ==
    [name |-> name, docs |-> docs, attrs |-> attr_list, inner |-> inner]

\* a PathEntry of the path table
PathEntry(kind, path) == [kind |-> kind, path |-> path, summary |-> JNull]

\* the ids an impl block lists: every id of the index, as numbers or as strings
ListedIds(as_text) ==
    JArr([i \in 1..NumItems |->
             IF as_text THEN JStr(num_to_string(i)) ELSE JNum(i)])

\* the type with id 0 is in the path table only (its item is not in the index)
TypePaths == [k \in {num_to_string(0)} |-> PathEntry(S_struct, <<N_k, N_Ab>>)]

\* fn name(&self) / fn name()
FnInner(with_self) ==
    JObj([function |->
        JObj([sig |-> JObj([inputs |->
                  JArr(IF with_self
                       THEN <<JArr(<<JStr(S_self),
                                JObj([borrowed_ref |->
                                    JObj([type |-> JObj([generic |-> JStr(S_Self)])])])>>)>>
                       ELSE <<>>),
              output |-> JNull])])])

ImplInner(trait_val, for_val, as_text) ==
    JObj([impl |-> Obj([trait |-> trait_val, for |-> for_val,
                        items |-> ListedIds(as_text)])])

\* what an index entry can be: the item, and its path entry (<<>> if it has none)
Pool ==
    { \* named items, listed in the path table
      [item |-> Item(JStr(N_Ab), JNull, <<>>, JObj([struct |-> JObj(<<>>)])),
       entry |-> <<PathEntry(S_struct, <<N_k, N_Ab>>)>>],
      [item |-> Item(JStr(N_a), JNull, <<JObj([other |-> JStr(PieceText("Fa"))])>>,
                     FnInner(FALSE)),
       entry |-> <<PathEntry(S_function, <<N_k, N_a>>)>>],
      [item |-> Item(JStr(N_x), JStr(S_docs_ab_c), <<>>, FnInner(FALSE)),
       entry |-> <<PathEntry(S_function, <<N_j, N_x>>)>>],
      \* methods: function items that are not in the path table
      [item |-> Item(JStr(N_ab), JNull, <<>>, FnInner(TRUE)), entry |-> <<>>],
      [item |-> Item(JStr(N_x), JStr(N_ab), <<>>, FnInner(TRUE)), entry |-> <<>>],
      [item |-> Item(JNull, JNull, <<>>, FnInner(TRUE)), entry |-> <<>>],
      \* impl blocks: inherent for the type with id 0, inherent for a type without
      \* an id, inherent for a type that renders as nothing, and a trait impl
      [item |-> Item(JNull, JNull, <<>>,
                     ImplInner(JNull, JObj([resolved_path |->
                                   JObj([id |-> JNum(0), path |-> JStr(N_Ab)])]), FALSE)),
       entry |-> <<>>],
      [item |-> Item(JNull, JNull, <<>>,
                     ImplInner(Absent, JObj([primitive |-> JStr(N_j)]), TRUE)),
       entry |-> <<>>],
      [item |-> Item(JNull, JNull, <<>>,
                     ImplInner(Absent, JObj([generic |-> JStr(S_empty)]), FALSE)),
       entry |-> <<>>],
      [item |-> Item(JNull, JNull, <<>>,
                     ImplInner(DirectPath(5, N_Send), DirectPath(0, N_Ab), FALSE)),
       entry |-> <<>>] }

\* the document of a sequence of pool entries: the entry at position i has id "i"
MakeDoc(chosen) ==
    LET listed == {i \in 1..Len(chosen) : Len(chosen[i].entry) > 0}
        pos(k) == CHOOSE i \in listed : num_to_string(i) = k
    IN [index |-> [i \in 1..Len(chosen) |->
                      [id |-> num_to_string(i), item |-> chosen[i].item]],
        paths |-> [k \in {num_to_string(i) : i \in listed} \cup DOMAIN TypePaths |->
                      IF k \in DOMAIN TypePaths THEN TypePaths[k]
                      ELSE chosen[pos(k)].entry[1]]]

Queries == {S_empty, N_a, N_AB}
KindFilters == {Absent, JStr(S_fn), JStr(S_function), JStr(S_method)}
ModulePrefixes == {Absent, JStr(S_k_colons), JStr(S_k_Ab_colons)}

\* the calls: a limit of nothing, of one, and the largest limit
Calls ==
    [made : {TRUE}, query : Queries, kind_filter : KindFilters,
     module_prefix : ModulePrefixes, limit : {0, 1, MaxLimit}, declared_features : {{}}]

\* the documents: up to NumItems index entries, no two of them the same item
SearchInit ==
    /\ \E n \in 0..NumItems : \E chosen \in [1..n -> Pool] :
          /\ \A i, j \in 1..n : i # j => chosen[i] # chosen[j]
          /\ doc = MakeDoc(chosen)
    /\ call = NoCall
    /\ results = <<>>
    /\ OthersIdle("search")

\* one call of search_items on the document
SearchItems ==
    /\ call = NoCall
    /\ \E c \in Calls :
          /\ call' = c
          /\ results' = search_items(doc, c)
    /\ UNCHANGED doc
    /\ OthersUnchanged("search")

SearchNext == SearchItems

SpecSearch == SearchInit /\ [][SearchNext]_vars

-----------------------------------------------------------------------------
(* Properties of search_items *)

\* the index entry a result was made from, its lowercased name, the lowercased query
EntryOf(r) == CHOOSE i \in 1..Len(doc.index) : doc.index[i].id = r.id
NameLower(e) == to_lowercase(StrOr(e.item.name, S_empty))
QueryLower == to_lowercase(call.query)
FromMethodPass(r) == r.id \notin DOMAIN doc.paths
SeqsOf(v) == {v[i].seq : i \in 1..Len(v)}

\* C1: the call returns min(limit, N) of the N candidates of both passes, each
\* of them a candidate, and no candidate that was left out has a score strictly
\* higher than one that was returned.
C1_TruncateAfterSort ==
    call.made =>
        LET found == candidates(doc, call)
            smaller == IF call.limit < Len(found) THEN call.limit ELSE Len(found)
        IN /\ Len(results) = smaller
           /\ \A i \in 1..Len(results) :
                 /\ results[i].seq \in 1..Len(found)
                 /\ found[results[i].seq] = results[i]
           /\ Cardinality(SeqsOf(results)) = Len(results)
           /\ \A k \in 1..Len(found) : \A i \in 1..Len(results) :
                 k \notin SeqsOf(results) => found[k].score <= results[i].score

\* a call with more candidates than the limit, where a returned result was found
\* after the first `limit` candidates
C1_Witness ==
    /\ call.made
    /\ call.limit >= 1
    /\ Len(candidates(doc, call)) > call.limit
    /\ \E i \in 1..Len(results) : results[i].seq > call.limit

\* C2: the returned scores never increase, results of equal score are in the
\* order in which they were found, and so a named item is never behind a method
\* of the same score.
C2_SortedStable ==
    \A i, j \in 1..Len(results) :
        i < j =>
            /\ results[i].score >= results[j].score
            /\ results[i].score = results[j].score =>
                   /\ results[i].seq < results[j].seq
                   /\ ~(FromMethodPass(results[i]) /\ ~FromMethodPass(results[j]))

\* a named item and a method of equal score, the method earlier in the index
C2_Witness ==
    /\ Len(results) = 2
    /\ results[1].score = results[2].score
    /\ ~FromMethodPass(results[1])
    /\ FromMethodPass(results[2])
    /\ EntryOf(results[2]) < EntryOf(results[1])

\* the name of a result's item equals the query / only starts with or contains it
NameEquals(r) == NameLower(doc.index[EntryOf(r)]) = QueryLower
NameOnlyContains(r) ==
    /\ NameLower(doc.index[EntryOf(r)]) # QueryLower
    /\ contains(NameLower(doc.index[EntryOf(r)]), QueryLower)

\* C3: a result whose item name equals the query, case-insensitively, has score
\* 1.0 and is never behind a result whose name only starts with or contains it.
C3_ExactMatchFirst ==
    \A i \in 1..Len(results) :
        NameEquals(results[i]) =>
            /\ results[i].score = 10
            /\ \A j \in 1..Len(results) : NameOnlyContains(results[j]) => i < j

\* an exact match returned ahead of a partial match that was found before it
C3_Witness ==
    /\ Len(results) = 2
    /\ NameEquals(results[1])
    /\ NameOnlyContains(results[2])
    /\ results[2].seq < results[1].seq

\* C4: the method pass runs only without a kind filter or with the filter
\* "method": under any other filter (so under "fn" and "function") no result
\* comes from the method pass or has kind "method", and under "method" every
\* result has kind "method".
C4_MethodPassOnlyWhenWanted ==
    call.made =>
        /\ (Present(call.kind_filter) /\ call.kind_filter.v # S_method) =>
               \A i \in 1..Len(results) :
                   ~FromMethodPass(results[i]) /\ results[i].kind # S_method
        /\ (Present(call.kind_filter) /\ call.kind_filter.v = S_method) =>
               \A i \in 1..Len(results) : results[i].kind = S_method

\* a call with the filter "fn" that returns a function, on a document whose
\* methods the same call without the filter returns
C4_Witness ==
    /\ call.made
    /\ call.kind_filter = JStr(S_fn)
    /\ Len(results) > 0
    /\ second_pass(doc, [call EXCEPT !.kind_filter = Absent]) # <<>>

\* C5: with a module prefix every result path starts with the prefix; a method
\* is filtered on the path of its parent type, and its path is that parent path,
\* `::`, and the method name.
C5_ModulePrefix ==
    (call.made /\ Present(call.module_prefix)) =>
        \A i \in 1..Len(results) :
            /\ starts_with(results[i].path, call.module_prefix.v)
            /\ FromMethodPass(results[i]) =>
                   LET parent_path == build_method_parent_map(doc)[results[i].id]
                       name == doc.index[EntryOf(results[i])].item.name.v
                   IN /\ starts_with(parent_path, call.module_prefix.v)
                      /\ results[i].path = parent_path \o S_colons \o name

\* a call with a prefix that returns a method and leaves out a candidate of the
\* same call without the prefix
C5_Witness ==
    /\ call.made
    /\ Present(call.module_prefix)
    /\ \E i \in 1..Len(results) : FromMethodPass(results[i])
    /\ Len(candidates(doc, [call EXCEPT !.module_prefix = Absent]))
           > Len(candidates(doc, call))

\* the inherent impl blocks of the index that list the id of an entry
IsInherentImplListing(im, e) ==
    /\ KindIs(im.item, "impl")
    /\ LET impl_inner == inner_for(im.item, "impl")
       IN /\ Get(impl_inner, "trait") \in {Absent, JNull}
          /\ Present(Get(impl_inner, "for"))
          /\ IsArr(Get(impl_inner, "items"))
          /\ \E k \in 1..Len(Get(impl_inner, "items").v) :
                Get(impl_inner, "items").v[k] \in {JStr(e.id)} \cup
                    {JNum(n) : n \in {m \in 0..Len(doc.index) : num_to_string(m) = e.id}}

\* the path of the type an impl block is for
ImplTypePath(im) == parent_path_of(doc, Get(inner_for(im.item, "impl"), "for"))

\* a function item with a name that is not in the path table
IsNamedMethodItem(e) ==
    /\ KindIs(e.item, "function")
    /\ e.id \notin DOMAIN doc.paths
    /\ IsStr(e.item.name)
    /\ Len(e.item.name.v) > 0

\* a result for method e of the type with path P, scored at least 0.6
HasMethodResult(e, P) ==
    \E i \in 1..Len(results) :
        /\ results[i].path = P \o S_colons \o e.item.name.v
        /\ results[i].kind = S_method
        /\ results[i].score >= 6

Entries == {doc.index[i] : i \in 1..Len(doc.index)}

\* C6 as stated: a named function item outside the path table that an inherent
\* impl of the type with path P lists is returned as `P::m`, kind "method",
\* score at least 0.6, by every call without a kind filter whose query is a
\* case-insensitive substring of P and whose limit is not below the number of
\* candidates.
C6_MethodsOfMatchingType ==
    (call.made /\ ~Present(call.kind_filter)) =>
        \A e \in Entries : \A im \in Entries :
            (IsNamedMethodItem(e) /\ IsInherentImplListing(im, e)
               /\ contains(to_lowercase(ImplTypePath(im)), QueryLower))
            => \/ HasMethodResult(e, ImplTypePath(im))
               \/ call.limit < Len(candidates(doc, call))

\* C6 (amended): a named function item outside the path table that an inherent
\* impl of the type with the non-empty path P lists, and that no inherent impl of
\* a type with another non-empty path lists, is returned as `P::m`, kind
\* "method", score at least 0.6, by every call without a kind filter, with no
\* module prefix or one that P starts with, whose query is a case-insensitive
\* substring of P and whose limit is not below the number of candidates.
C6_MethodsOfMatchingTypeInScope ==
    (call.made /\ ~Present(call.kind_filter)) =>
        \A e \in Entries : \A im \in Entries :
            (IsNamedMethodItem(e) /\ IsInherentImplListing(im, e)
               /\ contains(to_lowercase(ImplTypePath(im)), QueryLower)
               /\ Len(ImplTypePath(im)) > 0
               /\ (Present(call.module_prefix) =>
                      starts_with(ImplTypePath(im), call.module_prefix.v))
               /\ \A other \in Entries :
                      (IsInherentImplListing(other, e) /\ Len(ImplTypePath(other)) > 0)
                      => ImplTypePath(other) = ImplTypePath(im))
            => \/ HasMethodResult(e, ImplTypePath(im))
               \/ call.limit < Len(candidates(doc, call))

\* a method whose name and docs do not match the query, returned with score 0.6
\* because the path of its type does
C6_Witness ==
    /\ call.made
    /\ ~Present(call.kind_filter)
    /\ \E e \in Entries : \E im \in Entries :
          /\ IsNamedMethodItem(e)
          /\ IsInherentImplListing(im, e)
          /\ ~contains(NameLower(e), QueryLower)
          /\ contains(to_lowercase(ImplTypePath(im)), QueryLower)
          /\ \E i \in 1..Len(results) :
                /\ results[i].path = ImplTypePath(im) \o S_colons \o e.item.name.v
                /\ results[i].kind = S_method
                /\ results[i].score = 6

-----------------------------------------------------------------------------
(* Generics of any item: parser.rs, format_generics_for_item *)

\* line 290: the kinds tried, the requested kind first
generics_kinds(kind) == <<kind, "struct", "enum", "union", "trait", "type_alias", "typedef">>

\* lines 294-296: the first rendering that is not empty
first_nonempty(s, rest) == IF Len(s) > 0 THEN s ELSE rest

\* lines 290-299, the loop from the n-th kind on
RECURSIVE generics_from(_, _, _)
generics_from(item, kinds, n) ==
    IF n > Len(kinds) THEN S_empty
    ELSE IF Present(Get(inner_for(item, kinds[n]), "generics"))
    THEN first_nonempty(format_generics(Get(inner_for(item, kinds[n]), "generics")),
                        generics_from(item, kinds, n + 1))
    ELSE generics_from(item, kinds, n + 1)

\* lines 289-301
format_generics_for_item(item, kind) == generics_from(item, generics_kinds(kind), 1)

-----------------------------------------------------------------------------
(* The items handed to function_signature and format_generics_for_item *)

\* the longest list of parameters, generic parameters and where predicates drawn
MaxList == 2

N_f == <<"f">>
N_N == <<"N">>
N_usize == <<"u","s","i","z","e">>
N_impl_Send == <<"i","m","p","l"," ","S","e","n","d">>

T_Self == JObj([generic |-> JStr(S_Self)])
T_T == JObj([generic |-> JStr(N_T)])
T_RefSelf(mutable) ==
    JObj([borrowed_ref |-> JObj([lifetime |-> JNull, mutable |-> JBool(mutable),
                                 type |-> T_Self])])
TraitBound(name) == JObj([trait_bound |-> JObj([trait |-> DirectPath(1, name)])])

\* [name, type] pairs: the receivers, plain parameters, a pair without a type,
\* an entry that is no pair
ParamPool ==
    {JArr(<<JStr(S_self), T_Self>>), JArr(<<JStr(S_self), T_RefSelf(FALSE)>>),
     JArr(<<JStr(S_self), T_RefSelf(TRUE)>>),
     JArr(<<JStr(S_self), JObj([primitive |-> JStr(N_str)])>>),
     JArr(<<JStr(N_x), T_T>>),
     JArr(<<JStr(N_a), JObj([impl_trait |-> JArr(<<TraitBound(N_Send)>>)])>>),
     JArr(<<JStr(N_x)>>), JStr(N_x)}

\* generic parameters: plain, bounded, lifetime, const, synthetic, nameless
GenericParamPool ==
    {JObj([name |-> JStr(N_T), kind |-> JObj([type |-> JObj([bounds |-> JArr(<<>>)])])]),
     JObj([name |-> JStr(N_T),
           kind |-> JObj([type |-> JObj([bounds |-> JArr(<<TraitBound(N_Send)>>)])])]),
     JObj([name |-> JStr(S_apos \o N_a), kind |-> JObj([lifetime |-> JObj(<<>>)])]),
     JObj([name |-> JStr(N_N),
           kind |-> JObj([const |-> JObj([type |-> JObj([primitive |-> JStr(N_usize)])])])]),
     JObj([name |-> JStr(N_impl_Send),
           kind |-> JObj([type |-> JObj([bounds |-> JArr(<<TraitBound(N_Send)>>)])])]),
     JObj([kind |-> JObj([type |-> JObj([bounds |-> JArr(<<>>)])])])}

\* where predicates: one bound, two bounds, no bound, no trait bound, no type,
\* not a bound predicate
WherePool ==
    {JObj([bound_predicate |-> JObj([type |-> T_T, bounds |-> JArr(<<TraitBound(N_Send)>>)])]),
     JObj([bound_predicate |->
              JObj([type |-> T_Self,
                    bounds |-> JArr(<<TraitBound(N_Send), TraitBound(N_Error)>>)])]),
     JObj([bound_predicate |-> JObj([type |-> T_T, bounds |-> JArr(<<>>)])]),
     JObj([bound_predicate |->
              JObj([type |-> T_T, bounds |-> JArr(<<JObj([outlives |-> JStr(N_a)])>>)])]),
     JObj([bound_predicate |-> JObj([bounds |-> JArr(<<TraitBound(N_Send)>>)])]),
     JObj([lifetime_predicate |-> JObj([lifetime |-> JStr(N_a)])])}

\* the lists over a pool, up to MaxList long
ListsOver(pool) == UNION {[1..n -> pool] : n \in 0..MaxList}

Sig(inputs, output) == Obj([inputs |-> inputs, output |-> output])
Generics(params, where_predicates) ==
    Obj([params |-> params, where_predicates |-> where_predicates])
FnPayload(header, generics, sig) ==
    JObj([function |-> Obj([header |-> header, generics |-> generics, sig |-> sig])])

G_bounded ==
    Generics(JArr(<<JObj([name |-> JStr(N_T),
                          kind |-> JObj([type |-> JObj([bounds |->
                                           JArr(<<TraitBound(N_Send)>>)])])])>>),
             JArr(<<JObj([bound_predicate |->
                       JObj([type |-> T_T, bounds |-> JArr(<<TraitBound(N_Error)>>)])])>>))

HeaderVals ==
    {Absent, JNull,
     JObj([is_const |-> JBool(TRUE), is_async |-> JBool(TRUE), is_unsafe |-> JBool(TRUE)]),
     JObj([is_const |-> JBool(FALSE), is_async |-> JBool(TRUE)]),
     JObj([is_unsafe |-> JBool(TRUE), is_const |-> JStr(N_x)])}

OutputVals == {Absent, JNull, JObj([tuple |-> JArr(<<>>)]), T_T}

\* functions that differ in their parameters
ParamItems ==
    {Item(name, JNull, <<>>, FnPayload(Absent, g, Sig(inputs, output))) :
        name \in {JNull, JStr(N_f)}, g \in {Absent, G_bounded},
        inputs \in {JArr(l) : l \in ListsOver(ParamPool)} \cup {JNull},
        output \in OutputVals}

\* functions and other items that differ in their generic parameters
GenericsItems ==
    LET gs == {Generics(ps, w) :
                  ps \in {JArr(l) : l \in ListsOver(GenericParamPool)} \cup {Absent, JNull},
                  w \in {Absent, JArr(<<>>)}}
    IN {Item(JStr(N_f), JNull, <<>>,
             FnPayload(Absent, g,
                       Sig(JArr(<<JArr(<<JStr(N_a),
                               JObj([impl_trait |-> JArr(<<TraitBound(N_Send)>>)])>>)>>),
                           T_T))) : g \in gs}
       \cup {Item(JStr(N_f), JNull, <<>>, JObj([struct |-> JObj([generics |-> g])])) : g \in gs}
       \cup {Item(JStr(N_f), JNull, <<>>,
                  JObj([enum |-> JObj([generics |-> Generics(JArr(<<>>), Absent)]),
                        trait |-> JObj([generics |-> g])])) : g \in gs}

\* functions that differ in their where predicates
WhereItems ==
    {Item(JStr(N_f), JNull, <<>>,
          FnPayload(Absent, Generics(ps, w), Sig(JArr(<<>>), output))) :
        ps \in {Absent, JArr(<<JObj([name |-> JStr(N_T)])>>)},
        w \in {JArr(l) : l \in ListsOver(WherePool)} \cup {JNull},
        output \in {JNull, T_T}}

\* items with and without a function payload and a sig, with every header
ShapeItems ==
    {Item(name, JNull, <<>>, inner) :
        name \in {JNull, JStr(N_f)},
        inner \in {JNull, JObj([struct |-> JObj(<<>>)]), JObj([function |-> JNull]),
                   JObj([function |-> JObj(<<>>)])}
                  \cup {FnPayload(h, Absent, sg) :
                           h \in HeaderVals,
                           sg \in {Absent, JNull, JNum(1), JObj(<<>>),
                                   Sig(JArr(<<>>), T_T)}}}

SigInit ==
    /\ fn_item \in ParamItems \cup GenericsItems \cup WhereItems \cup ShapeItems
    /\ fn_sig = NotRun
    /\ item_generics = NotRun
    /\ OthersIdle("signature")

\* one call of function_signature
Signature ==
    /\ fn_sig = NotRun
    /\ fn_sig' = [run |-> TRUE, out |-> function_signature(fn_item)]
    /\ UNCHANGED <<fn_item, item_generics>>
    /\ OthersUnchanged("signature")

\* one call of format_generics_for_item
GenericsForItem ==
    /\ item_generics = NotRun
    /\ \E kind \in {"function", "struct", "trait"} :
          item_generics' = [run |-> TRUE, kind |-> kind,
                            out |-> format_generics_for_item(fn_item, kind)]
    /\ UNCHANGED <<fn_item, fn_sig>>
    /\ OthersUnchanged("signature")

SigNext == Signature \/ GenericsForItem

SpecSig == SigInit /\ [][SigNext]_vars

-----------------------------------------------------------------------------
(* Properties of function_signature and format_generics_for_item *)

\* the item has a function payload with a sig key
HasSig == Present(Get(inner_for(fn_item, "function"), "sig"))

\* the [name, type] pairs of the sig's inputs
InputPairs ==
    LET inputs == Get(Get(inner_for(fn_item, "function"), "sig"), "inputs")
    IN IF IsArr(inputs) THEN SelectSeq(inputs.v, LAMBDA i : IsArr(i)) ELSE <<>>

PairName(pair) == IF Len(pair.v) >= 1 THEN StrOr(pair.v[1], S_underscore) ELSE S_underscore
PairType(pair) == IF Len(pair.v) >= 2 THEN type_to_string(pair.v[2]) ELSE S_underscore

\* how the claim says one parameter reads
ExpectedParam(pair) ==
    IF PairName(pair) = S_self /\ PairType(pair) = <<"S","e","l","f">>
    THEN <<"s","e","l","f">>
    ELSE IF PairName(pair) = S_self /\ PairType(pair) = <<"&","S","e","l","f">>
    THEN <<"&","s","e","l","f">>
    ELSE IF PairName(pair) = S_self
            /\ PairType(pair) = <<"&","m","u","t"," ","S","e","l","f">>
    THEN <<"&","m","u","t"," ","s","e","l","f">>
    ELSE PairName(pair) \o <<":"," ">> \o PairType(pair)

\* C12: the parameter list of a signature is, in the order of the inputs, `self`,
\* `&self` or `&mut self` for a parameter named self of type Self, &Self or
\* &mut Self, `self: Type` for a self of another type, and `name: Type` for every
\* other parameter.
C12_SelfReceiver ==
    (fn_sig # NotRun /\ HasSig) =>
        contains(fn_sig.out,
                 <<"(">> \o join([i \in 1..Len(InputPairs) |-> ExpectedParam(InputPairs[i])],
                                 <<",", " ">>) \o <<")">>)

\* C12 witness: fn f(&mut self, x: T) was rendered with the receiver in short form
C12_Witness ==
    /\ fn_sig # NotRun
    /\ Get(Get(inner_for(fn_item, "function"), "sig"), "inputs")
          = JArr(<<JArr(<<JStr(S_self), T_RefSelf(TRUE)>>), JArr(<<JStr(N_x), T_T>>)>>)
    /\ contains(fn_sig.out, <<"(","&","m","u","t"," ","s","e","l","f",","," ","x",":"," ","T",")">>)

\* the renderable trait bounds of a bound list, rendered
BoundTexts(bounds) ==
    LET ok == SelectSeq(bounds, LAMBDA b : Present(Get(Get(b, "trait_bound"), "trait")))
    IN [i \in 1..Len(ok) |-> type_to_string(Get(Get(ok[i], "trait_bound"), "trait"))]

\* the where predicates of the item that have a type and a renderable bound
SurvivingPredicates ==
    LET w == Get(Get(inner_for(fn_item, "function"), "generics"), "where_predicates")
    IN IF IsArr(w)
       THEN SelectSeq(w.v, LAMBDA c :
                /\ Present(Get(Get(c, "bound_predicate"), "type"))
                /\ IsArr(Get(Get(c, "bound_predicate"), "bounds"))
                /\ Len(BoundTexts(Get(Get(c, "bound_predicate"), "bounds").v)) > 0)
       ELSE <<>>

ExpectedPredicate(c) ==
    type_to_string(Get(Get(c, "bound_predicate"), "type")) \o <<":"," ">>
    \o join(BoundTexts(Get(Get(c, "bound_predicate"), "bounds").v), <<" ","+"," ">>)

K_where == <<"w","h","e","r","e">>
ends_with(s, p) == Len(p) <= Len(s) /\ SubSeq(s, Len(s) - Len(p) + 1, Len(s)) = p
Occurrences(s, p) ==
    Cardinality({i \in 0..(Len(s) - Len(p)) : SubSeq(s, i + 1, i + Len(p)) = p})

\* C13: a signature has no `where` when no where predicate has a type and a
\* renderable trait bound; otherwise it ends with one where block that lists
\* exactly those predicates, in their order, as `Type: Bound1 + Bound2`; a
\* `Type: ` without bounds never appears.
C13_WhereClauses ==
    (fn_sig # NotRun /\ HasSig) =>
        /\ ~ends_with(fn_sig.out, <<":"," ">>)
        /\ ~contains(fn_sig.out, <<":"," ",",">>)
        /\ IF Len(SurvivingPredicates) = 0
           THEN ~contains(fn_sig.out, K_where)
           ELSE /\ Occurrences(fn_sig.out, K_where) = 1
                /\ ends_with(fn_sig.out,
                       <<"\n">> \o K_where \o <<"\n"," "," "," "," ">>
                       \o join([i \in 1..Len(SurvivingPredicates) |->
                                   ExpectedPredicate(SurvivingPredicates[i])],
                               <<",","\n"," "," "," "," ">>))

\* C13 witness: a predicate without bounds, then one with two bounds: only the
\* second is in the where block
C13_Witness ==
    /\ fn_sig # NotRun
    /\ HasSig
    /\ Len(SurvivingPredicates) = 1
    /\ IsArr(Get(Get(inner_for(fn_item, "function"), "generics"), "where_predicates"))
    /\ Len(Get(Get(inner_for(fn_item, "function"), "generics"), "where_predicates").v) = 2
    /\ ends_with(fn_sig.out,
                 <<"\n">> \o K_where \o <<"\n"," "," "," "," ">>
                 \o <<"S","e","l","f",":"," ","S","e","n","d"," ","+"," ","E","r","r","o","r">>)

\* the generic parameters under one payload kind that the claim lets through:
\* those with a text name that is not an `impl ...` placeholder
NamedParams(kind) ==
    LET ps == Get(Get(inner_for(fn_item, kind), "generics"), "params")
    IN IF IsArr(ps)
       THEN SelectSeq(ps.v, LAMBDA p :
                /\ IsStr(Get(p, "name"))
                /\ ~starts_with(Get(p, "name").v, <<"i","m","p","l"," ">>))
       ELSE <<>>

IsConstParam(p) == Present(Get(Get(p, "kind"), "const"))

\* `const Name: Type`
ConstText(p) ==
    <<"c","o","n","s","t"," ">> \o Get(p, "name").v \o <<":"," ">>
    \o type_to_string(Get(Get(Get(p, "kind"), "const"), "type"))

\* the first position of p in s, 0 when there is none
FirstIndex(s, p) ==
    IF contains(s, p)
    THEN CHOOSE i \in 1..Len(s) :
            /\ i + Len(p) - 1 <= Len(s)
            /\ SubSeq(s, i, i + Len(p) - 1) = p
            /\ \A j \in 1..(i - 1) : SubSeq(s, j, j + Len(p) - 1) # p
    ELSE 0

\* the generic list of a signature: the text between `fn name` and the first `(`
SignatureGenerics ==
    SubSeq(fn_sig.out,
           FirstIndex(fn_sig.out, <<"f","n"," ">>) + 3
               + Len(StrOr(fn_item.name, <<"_">>)),
           FirstIndex(fn_sig.out, <<"(">>) - 1)

\* the kinds whose generics format_generics_for_item may show
ShownKinds(kind) == {kind, "struct", "enum", "union", "trait", "type_alias", "typedef"}

\* what the claim says of one rendered generic list g, given the parameter
\* lists it may have been rendered from
GenericListOk(g, lists) ==
    /\ g # <<"<", ">">>
    /\ ~contains(g, <<"i","m","p","l"," ">>)
    /\ (\A l \in lists : Len(l) = 0) <=> (g = <<>>)
    /\ g # <<>> =>
          /\ Head(g) = "<"
          /\ g[Len(g)] = ">"
          /\ \E l \in lists :
                /\ Len(l) > 0
                /\ Occurrences(g, <<",", " ">>) = Len(l) - 1
                /\ \A i \in 1..Len(l) : IsConstParam(l[i]) => contains(g, ConstText(l[i]))

\* C14: the generic list of a signature and the one format_generics_for_item
\* returns never show a parameter named `impl ...`, show a const parameter as
\* `const Name: Type`, and are the empty string, never `<>`, when no parameter
\* is left.
C14_GenericList ==
    /\ (fn_sig # NotRun /\ HasSig) =>
          GenericListOk(SignatureGenerics, {NamedParams("function")})
    /\ item_generics # NotRun =>
          GenericListOk(item_generics.out,
                        {NamedParams(k) : k \in ShownKinds(item_generics.kind)})

\* C14 witness: a synthetic `impl Send` parameter before a const parameter:
\* only the const parameter is listed
C14_Witness ==
    /\ fn_sig # NotRun
    /\ HasSig
    /\ IsArr(Get(Get(inner_for(fn_item, "function"), "generics"), "params"))
    /\ Len(Get(Get(inner_for(fn_item, "function"), "generics"), "params").v) = 2
    /\ Len(NamedParams("function")) = 1
    /\ SignatureGenerics = <<"<","c","o","n","s","t"," ","N",":"," ","u","s","i","z","e",">">>
    /\ item_generics # NotRun
    /\ item_generics.out = SignatureGenerics

\* the item has a function payload that holds a sig object
HasSigObject ==
    /\ IsObj(inner_for(fn_item, "function"))
    /\ IsObj(Get(inner_for(fn_item, "function"), "sig"))

\* C15: function_signature returns the empty string exactly when the item has
\* no function payload or the payload has no sig object; with both, the result
\* holds `fn ` followed by the item's name, or by `_` for an item without name.
C15_EmptyExactlyWithoutSig ==
    fn_sig # NotRun =>
        /\ (fn_sig.out = <<>>) <=> ~HasSigObject
        /\ HasSigObject =>
              contains(fn_sig.out, <<"f","n"," ">> \o StrOr(fn_item.name, <<"_">>))

-----------------------------------------------------------------------------
(* Module tree: parser.rs, build_module_tree and build_children *)

\* line 487: the recursion depth past which build_children returns nothing
DepthCap == 5

\* RustdocJson::root_id: a number as its decimal text, a string as it is, any
\* other value as its JSON text
root_id(d) ==
    IF d.root.t = "num" THEN num_to_string(d.root.v)
    ELSE IF d.root.t = "str" THEN d.root.v
    ELSE to_string(d.root)

\* doc.index.get(id), for an id of the index
index_item(d, id) == (CHOOSE i \in 1..Len(d.index) : d.index[i].id = id)
index_get(d, id) == d.index[index_item(d, id)].item

\* inner_for("module").items as an array, empty when there is none
module_items(item) ==
    IF IsArr(Get(inner_for(item, "module"), "items"))
    THEN Get(inner_for(item, "module"), "items").v
    ELSE <<>>

\* lines 496-505 and 524-525: the ids of a list that are text and in the index
listed_ids(d, item_ids) ==
    LET ok == SelectSeq(item_ids, LAMBDA v :
                  IdIsText(v) /\ id_val_to_string(v) \in IndexIds(d))
    IN [i \in 1..Len(ok) |-> id_val_to_string(ok[i])]

\* Mutant of is_noise: nothing is left out of the counts and the item list
is_noise_never(k) == FALSE

\* line 529: re-exports are left out of the counts and the item list
is_noise(k) == k = "use" \/ k = "import"

\* lines 524-529: the listed items that have a kind and are no re-exports
counted_ids(d, ids) ==
    SelectSeq(ids, LAMBDA id :
        HasKind(index_get(d, id)) /\ ~is_noise(KindKey(index_get(d, id))))

\* line 530: how many of the counted items each kind has
item_counts_of(d, ids) ==
    [k \in {KindKey(index_get(d, ids[i])) : i \in 1..Len(ids)} |->
        Cardinality({i \in 1..Len(ids) : KindKey(index_get(d, ids[i])) = k})]

\* Mutant of item_summaries: the modules are summarised too
item_summaries_with_modules(d, ids) ==
    [i \in 1..Len(ids) |->
        [kind |-> KindKey(index_get(d, ids[i])),
         name |-> StrOr(index_get(d, ids[i]).name, S_empty),
         doc_summary |-> doc_summary(index_get(d, ids[i])),
         id |-> ids[i]]]

\* lines 532-538: the summaries of the counted items that are no modules
\* (id is a ghost field: the index id the summary was made from)
item_summaries(d, ids) ==
    LET others == SelectSeq(ids, LAMBDA id : KindKey(index_get(d, id)) # "module")
    IN [i \in 1..Len(others) |->
           [kind |-> KindKey(index_get(d, others[i])),
            name |-> StrOr(index_get(d, others[i]).name, S_empty),
            doc_summary |-> doc_summary(index_get(d, others[i])),
            id |-> others[i]]]

\* lines 510-513: the path of the path table, else the item's name, else the id
module_path(d, id, item) ==
    IF id \in DOMAIN d.paths THEN full_path(d.paths[id])
    ELSE StrOr(item.name, id)

\* lines 547-553: the node of one module (id is a ghost field: the index id of
\* the module item)
module_node(d, id, item, counted, children) ==
    [path |-> module_path(d, id, item),
     doc_summary |-> doc_summary(item),
     item_counts |-> item_counts_of(d, counted),
     items |-> item_summaries(d, counted),
     children |-> children,
     id |-> id]

\* line 507: item.kind().unwrap_or("unknown") == "module"
is_module(item) == KindIs(item, "module")

\* line 487
past_cap(depth) == depth > DepthCap

\* Mutant of module_ids: every listed item of the index becomes a node
module_ids_any_kind(d, ids) == ids

\* lines 494-509: the listed items that are modules
module_ids(d, ids) == SelectSeq(ids, LAMBDA id : is_module(index_get(d, id)))

\* lines 486-560
RECURSIVE build_children(_, _, _)
children_of(d, mods, depth) ==
    [i \in 1..Len(mods) |->
        module_node(d, mods[i], index_get(d, mods[i]),
                    counted_ids(d, listed_ids(d, module_items(index_get(d, mods[i])))),
                    build_children(module_items(index_get(d, mods[i])), d, depth + 1))]

build_children(item_ids, d, depth) ==
    IF past_cap(depth) THEN <<>>
    ELSE children_of(d, module_ids(d, listed_ids(d, item_ids)), depth)

\* lines 456-476
build_module_tree(d) ==
    IF root_id(d) \notin IndexIds(d) THEN <<>>
    ELSE IF Present(inner_for(index_get(d, root_id(d)), "module"))
    THEN build_children(module_items(index_get(d, root_id(d))), d, 0)
    ELSE <<>>

-----------------------------------------------------------------------------
(* The documents handed to build_module_tree *)

\* the ids 1..n, as numbers
AllIds(n) == JArr([i \in 1..n |-> JNum(i)])

\* what the item at position i of n can be
TreeShapes ==
    {"module_all", "module_next", "module_bare", "struct", "function", "use", "import",
     "unknown"}

\* the item of a shape: a module that lists every item (itself included, so the
\* modules form a cycle), a module that lists the next item by a text id, a
\* module without items and name, and items that are no modules
TreeItem(shape, i, n) ==
    CASE shape = "module_all" ->
            Item(JStr(N_k), JStr(S_docs_ab_c), <<>>, JObj([module |-> JObj([items |-> AllIds(n)])]))
      [] shape = "module_next" ->
            Item(JStr(N_j), JNull, <<>>,
                 JObj([module |-> JObj([items |->
                     JArr(<<JNull, JStr(num_to_string(i + 1))>>)])]))
      [] shape = "module_bare" ->
            Item(JNull, JNull, <<>>, JObj([module |-> JObj(<<>>)]))
      [] shape = "struct" ->
            Item(JStr(N_Ab), JStr(S_docs_ab_c), <<>>, JObj([struct |-> JObj(<<>>)]))
      [] shape = "function" -> Item(JStr(N_a), JNull, <<>>, FnInner(FALSE))
      [] shape = "use" -> Item(JStr(N_x), JNull, <<>>, JObj([use |-> JObj(<<>>)]))
      [] shape = "import" -> Item(JStr(N_x), JNull, <<>>, JObj([import |-> JObj(<<>>)]))
      [] OTHER -> Item(JNull, JNull, <<>>, JNull)

\* the root: a module that lists every item, a module that lists the first
\* item only, an item that is no module, or an id that is not in the index
RootShapes == {"lists_all", "lists_first", "no_module", "missing"}

RootItem(shape, n) ==
    CASE shape = "lists_all" -> Item(JStr(N_k), JNull, <<>>, JObj([module |-> JObj([items |-> AllIds(n)])]))
      [] shape = "lists_first" ->
            Item(JStr(N_k), JNull, <<>>,
                 JObj([module |-> JObj([items |-> JArr(<<JStr(num_to_string(1)), JNum(9)>>)])]))
      [] OTHER -> Item(JStr(N_k), JNull, <<>>, JObj([struct |-> JObj(<<>>)]))

\* the document of a root shape and a sequence of item shapes: the root has id
\* "0", the item at position i has id "i"; a module that lists every item is in
\* the path table
MakeTreeDoc(root_shape, shapes) ==
    [index |-> [i \in 1..(Len(shapes) + 1) |->
                   IF i = Len(shapes) + 1
                   THEN [id |-> num_to_string(0), item |-> RootItem(root_shape, Len(shapes))]
                   ELSE [id |-> num_to_string(i),
                         item |-> TreeItem(shapes[i], i, Len(shapes))]],
     paths |-> [k \in {num_to_string(i) : i \in {j \in 1..Len(shapes) : shapes[j] = "module_all"}} |->
                   PathEntry(S_module, <<N_k, k>>)],
     root |-> IF root_shape = "missing" THEN JNull
              ELSE IF root_shape = "lists_first" THEN JStr(num_to_string(0))
              ELSE JNum(0)]

TreeInit ==
    /\ \E n \in 0..NumItems : \E shapes \in [1..n -> TreeShapes] :
          \E root_shape \in RootShapes : tree_doc = MakeTreeDoc(root_shape, shapes)
    /\ tree = NotRun
    /\ OthersIdle("tree")

\* one call of build_module_tree
BuildModuleTree ==
    /\ tree = NotRun
    /\ tree' = [run |-> TRUE, out |-> build_module_tree(tree_doc)]
    /\ UNCHANGED tree_doc
    /\ OthersUnchanged("tree")

TreeNext == BuildModuleTree

SpecTree == TreeInit /\ [][TreeNext]_vars

-----------------------------------------------------------------------------
(* Properties of build_module_tree *)

\* the nodes of a list of trees, each with its level (the list itself is at
\* the given level) and the id of the module whose items it was built from
RECURSIVE NodesAt(_, _, _)
NodesAt(nodes, level, parent) ==
    UNION {{[node |-> nodes[i], level |-> level, parent |-> parent]}
           \cup NodesAt(nodes[i].children, level + 1, nodes[i].id) :
           i \in 1..Len(nodes)}

\* every node of the returned tree; the root's child modules are at level 1
ResultNodes == IF tree = NotRun THEN {} ELSE NodesAt(tree.out, 1, root_id(tree_doc))

\* the index ids a module item lists
ListedBy(id) ==
    LET l == module_items(index_get(tree_doc, id))
    IN {id_val_to_string(l[i]) : i \in {j \in 1..Len(l) : IdIsText(l[j])}}
       \cap IndexIds(tree_doc)

KindOfId(id) ==
    IF HasKind(index_get(tree_doc, id)) THEN KindKey(index_get(tree_doc, id)) ELSE "unknown"

\* C16: no node of the tree, at any depth, has a `use` or `import` key in its
\* item_counts, and no node has a `use` or `import` item in its items list.
C16_NoReexports ==
    \A x \in ResultNodes :
        /\ "use" \notin DOMAIN x.node.item_counts
        /\ "import" \notin DOMAIN x.node.item_counts
        /\ \A i \in 1..Len(x.node.items) :
              /\ x.node.items[i].kind \notin {"use", "import"}
              /\ KindOfId(x.node.items[i].id) \notin {"use", "import"}

\* C16 witness: a node below the first level whose module lists a `use` item, an
\* `import` item and itself: only the module is counted, nothing is listed
C16_Witness ==
    \E x \in ResultNodes :
        /\ x.level >= 2
        /\ \E u, m \in ListedBy(x.node.id) : KindOfId(u) = "use" /\ KindOfId(m) = "import"
        /\ DOMAIN x.node.item_counts = {"module"}
        /\ Len(x.node.items) = 0

\* C17: counting the root's child modules as level 1, no node of the tree is
\* nested deeper than level 5, whatever the document.
C17_FiveLevels == \A x \in ResultNodes : x.level <= 5

\* the items the root module lists that are no modules and that no other
\* module of the index lists
RootOnlyItems ==
    IF root_id(tree_doc) \in IndexIds(tree_doc)
    THEN {id \in ListedBy(root_id(tree_doc)) :
             /\ KindOfId(id) # "module"
             /\ \A m \in IndexIds(tree_doc) \ {root_id(tree_doc)} : id \notin ListedBy(m)}
    ELSE {}

\* how many items of kind k the module of a node lists
ListedOfKind(id, k) ==
    Cardinality({i \in 1..Len(module_items(index_get(tree_doc, id))) :
        LET v == module_items(index_get(tree_doc, id))[i]
        IN /\ IdIsText(v)
           /\ id_val_to_string(v) \in IndexIds(tree_doc)
           /\ KindOfId(id_val_to_string(v)) = k})

\* C18: every node of the tree, at any depth, is made from an index item of
\* kind `module` that the module above it lists (the root module at level 1, the
\* module of the node above otherwise), so it is reached from the root through
\* module items only; an item that is no module and that only the root module
\* lists is no node, is in no items list, and is in no count: each count of a
\* node is the number of items of that kind its own module lists.
C18_OnlyModules ==
    /\ \A x \in ResultNodes :
          /\ x.node.id \in IndexIds(tree_doc)
          /\ KindOfId(x.node.id) = "module"
          /\ x.node.id \in ListedBy(x.parent)
          /\ IF x.level = 1 THEN x.parent = root_id(tree_doc)
             ELSE \E y \in ResultNodes : y.level = x.level - 1 /\ y.node.id = x.parent
          /\ \A k \in DOMAIN x.node.item_counts :
                x.node.item_counts[k] = ListedOfKind(x.node.id, k)
          /\ \A i \in 1..Len(x.node.items) : x.node.items[i].id \in ListedBy(x.node.id)
    /\ \A r \in RootOnlyItems : \A x \in ResultNodes :
          /\ x.node.id # r
          /\ \A i \in 1..Len(x.node.items) : x.node.items[i].id # r

\* C18 witness: the root lists a struct and a module; the module lists another
\* struct: the tree has nodes, counts the inner struct, and the root's struct is
\* nowhere
C18_Witness ==
    /\ ResultNodes # {}
    /\ \E r \in RootOnlyItems : KindOfId(r) = "struct"
    /\ \E x \in ResultNodes : "struct" \in DOMAIN x.node.item_counts

-----------------------------------------------------------------------------
(* Fetching a document: docsrs/client.rs, fetch_rustdoc_json, and cache.rs *)

\* cache.rs line 11
CACHE_TTL_SECS == 24 * 60 * 60

\* client.rs line 31: the lowest format version that is accepted
FormatFloor == 33

S_docsrs_crate == <<"h","t","t","p","s",":","/","/","d","o","c","s",".","r","s","/","c","r","a","t","e","/">>
S_slash_json == <<"/","j","s","o","n">>
S_unsupported == <<"U","n","s","u","p","p","o","r","t","e","d"," ","r","u","s","t","d","o","c"," ","J","S","O","N"," ","f","o","r","m","a","t"," ","v","e","r","s","i","o","n",":"," ">>
S_expected == <<"."," ","E","x","p","e","c","t","e","d"," ",">","="," ","3","3",".">>
S_http_for == <<"H","T","T","P"," ","5","0","0"," ","I","n","t","e","r","n","a","l"," ","S","e","r","v","e","r"," ","E","r","r","o","r"," ","f","o","r"," ">>
S_zstd_failed == <<"Z","s","t","d"," ","d","e","c","o","m","p","r","e","s","s","i","o","n"," ","f","a","i","l","e","d">>
S_version_1 == <<"1">>

\* client.rs line 18
docs_url(name, version) ==
    S_docsrs_crate \o name \o <<"/">> \o version \o S_slash_json

\* Results: Ok(value) and Err(error)
Ok(v) == [ok |-> TRUE, value |-> v]
Err(kind, msg) == [ok |-> FALSE, kind |-> kind, msg |-> msg]

\* Mutant of head_check: every url is taken to exist
head_check_always(srv) == Ok(TRUE)

\* cache.rs lines 123-126: the status of the HEAD request, an error when the
\* request itself fails
head_check(srv) ==
    IF srv.head = "fails" THEN Err("Http", S_empty) ELSE Ok(srv.head = "success")

\* what a call did to the cache file and the network, in order (ghost): "read"
\* the file, "remove" it, "write" it, send a "HEAD" or a "GET" request
cache_log(file) ==
    IF file.file = "none" THEN <<>> ELSE <<"read">>

\* cache.rs lines 185-190: the text of zstd bytes
decompress_zstd(bytes) ==
    IF bytes.zstd THEN Ok(bytes.text) ELSE Err("Other", S_zstd_failed)

\* serde_json::from_str::<RustdocJson>: the document of a JSON text that has the
\* fields of types.rs lines 8-21
from_str(text) ==
    IF /\ IsObj(text)
       /\ Get(text, "format_version").t = "num"
       /\ Present(Get(text, "root"))
       /\ IsObj(Get(text, "index"))
       /\ IsObj(Get(text, "paths"))
    THEN Ok([format_version |-> Get(text, "format_version").v,
             root |-> Get(text, "root"),
             index |-> Get(text, "index").v,
             paths |-> Get(text, "paths").v])
    ELSE Err("Json", S_empty)

\* a cache file: none, one that is no CacheEntry, or a CacheEntry
NoFile == [file |-> "none"]
BrokenFile == [file |-> "broken"]
CacheEntry(cached_at, url, body) ==
    [file |-> "entry", cached_at |-> cached_at, url |-> url, body |-> body]

\* now.saturating_sub(cached_at)
saturating_sub(a, b) == IF a >= b THEN a - b ELSE 0

\* cache.rs lines 128-146: the body of a file that is an entry and not expired;
\* a broken or expired file is removed
read_valid_cache(file, time) ==
    IF file.file = "none" THEN [body |-> Absent, file |-> file, log |-> cache_log(file)]
    ELSE IF file.file = "broken"
    THEN [body |-> Absent, file |-> NoFile, log |-> cache_log(file) \o <<"remove">>]
    ELSE IF saturating_sub(time, file.cached_at) > CACHE_TTL_SECS
    THEN [body |-> Absent, file |-> NoFile, log |-> cache_log(file) \o <<"remove">>]
    ELSE [body |-> [t |-> "text", v |-> file.body], file |-> file, log |-> cache_log(file)]

\* cache.rs lines 148-157
write_cache(url, body, time) == CacheEntry(time, url, body)

\* cache.rs lines 93-95: the downloaded text is parsed, then cached, then returned
\* (source is a ghost field: where the document came from)
parsed_and_cached(parsed, url, body, time, file) ==
    IF parsed.ok
    THEN [result |-> Ok([doc |-> parsed.value, source |-> "download"]),
          file |-> write_cache(url, body, time), log |-> <<"GET", "write">>]
    ELSE [result |-> parsed, file |-> file, log |-> <<"GET">>]

\* cache.rs lines 54-61, 83-90, 107-114: the GET request; an error when it gets
\* no answer or an answer without a success status, else the bytes of the body
send(srv, url) ==
    IF srv.get = "fails" THEN Err("Http", S_empty)
    ELSE IF srv.get # "success" THEN Err("Other", S_http_for \o url)
    ELSE Ok(srv.bytes)

\* cache.rs lines 83-95: the download
download(srv, url, time, file) ==
    IF ~send(srv, url).ok
    THEN [result |-> send(srv, url), file |-> file, log |-> <<"GET">>]
    ELSE IF ~decompress_zstd(srv.bytes).ok
    THEN [result |-> decompress_zstd(srv.bytes), file |-> file, log |-> <<"GET">>]
    ELSE parsed_and_cached(from_str(decompress_zstd(srv.bytes).value), url,
                           decompress_zstd(srv.bytes).value, time, file)

\* cache.rs lines 79-81: the cached text is parsed and returned
from_cache(parsed, file) ==
    IF parsed.ok
    THEN [result |-> Ok([doc |-> parsed.value, source |-> "cache"]), file |-> file,
          log |-> <<>>]
    ELSE [result |-> parsed, file |-> file, log |-> <<>>]

\* cache.rs lines 79-95
serve(cached, srv, url, time) ==
    IF Present(cached.body) THEN from_cache(from_str(cached.body.v), cached.file)
    ELSE download(srv, url, time, cached.file)

\* the outcome of a getter after the look into the cache (log: the look first)
after_read(cached, outcome) ==
    [result |-> outcome.result, file |-> outcome.file, log |-> cached.log \o outcome.log]

\* cache.rs lines 72-96
get_zstd_json(file, srv, url, time) ==
    after_read(read_valid_cache(file, time),
               serve(read_valid_cache(file, time), srv, url, time))

\* resp.text(): the body as text; compressed bytes are no JSON text
resp_text(bytes) == IF bytes.zstd THEN JNull ELSE bytes.text

\* cache.rs lines 54-65: the download of get_json
download_json(srv, url, time, file) ==
    IF ~send(srv, url).ok
    THEN [result |-> send(srv, url), file |-> file, log |-> <<"GET">>]
    ELSE parsed_and_cached(from_str(resp_text(srv.bytes)), url, resp_text(srv.bytes),
                           time, file)

\* cache.rs lines 43-66
get_json(file, srv, url, time) ==
    after_read(read_valid_cache(file, time),
               IF Present(read_valid_cache(file, time).body)
               THEN from_cache(from_str(read_valid_cache(file, time).body.v),
                               read_valid_cache(file, time).file)
               ELSE download_json(srv, url, time, read_valid_cache(file, time).file))

\* serde_json::to_string(&text) and serde_json::from_str::<String>(&body): a
\* text as a JSON string, and the text of a body that is a JSON string
text_to_string(text) == [t |-> "str", v |-> text]
string_from_str(body) == IF body.t = "str" THEN Ok(body.v) ELSE Err("Json", S_empty)

\* Mutant of download_text: the text is cached whatever the status
download_text_any_status(srv, url, time, file) ==
    [result |-> send(srv, url),
     file |-> write_cache(url, text_to_string(resp_text(srv.bytes)), time),
     log |-> <<"GET", "write">>]

\* cache.rs lines 107-119: the download of get_text; the text is cached as a
\* JSON string
download_text(srv, url, time, file) ==
    IF ~send(srv, url).ok
    THEN [result |-> send(srv, url), file |-> file, log |-> <<"GET">>]
    ELSE [result |-> Ok([doc |-> resp_text(srv.bytes), source |-> "download"]),
          file |-> write_cache(url, text_to_string(resp_text(srv.bytes)), time),
          log |-> <<"GET", "write">>]

\* cache.rs lines 98-120
get_text(file, srv, url, time) ==
    after_read(read_valid_cache(file, time),
               IF Present(read_valid_cache(file, time).body)
               THEN from_cache(string_from_str(read_valid_cache(file, time).body.v),
                               read_valid_cache(file, time).file)
               ELSE download_text(srv, url, time, read_valid_cache(file, time).file))

\* Mutant of unsupported: a document from the cache is not checked
unsupported_download_only(got) ==
    got.source = "download" /\ got.doc.format_version < FormatFloor

\* client.rs line 31
unsupported(got) == got.doc.format_version < FormatFloor

\* client.rs lines 31-38
check_format_version(got) ==
    IF unsupported(got)
    THEN Err("Other", S_unsupported \o num_to_string(got.doc.format_version) \o S_expected)
    ELSE Ok(got)

\* client.rs lines 29-38: the document that was got, checked
checked(got) ==
    [result |-> IF got.result.ok THEN check_format_version(got.result.value)
                ELSE got.result,
     file |-> got.file,
     got |-> got.result,
     log |-> <<"HEAD">> \o got.log]

\* client.rs lines 12-39 (got is a ghost field: what get_zstd_json returned)
fetch_rustdoc_json(name, version, srv, file, time) ==
    IF ~head_check(srv).ok
    THEN [result |-> head_check(srv), file |-> file, got |-> Err("NotCalled", S_empty),
          log |-> <<"HEAD">>]
    ELSE IF ~head_check(srv).value
    THEN [result |-> Err("DocsNotFound", name \o <<" ">> \o version),
          file |-> file, got |-> Err("NotCalled", S_empty), log |-> <<"HEAD">>]
    ELSE checked(get_zstd_json(file, srv, docs_url(name, version), time))

-----------------------------------------------------------------------------
(* The servers, caches and clocks of fetch_rustdoc_json *)

MaxTicks == 2

CrateNames == {N_a, N_b}

\* the text of a document with a format version, and a text that is JSON but
\* no document
DocText(v) ==
    JObj([format_version |-> JNum(v), root |-> JNum(0),
          index |-> JObj(<<>>), paths |-> JObj(<<>>)])
NoDocText == JObj([root |-> JNum(0)])

\* the format versions on both sides of the floor
Versions == {FormatFloor - 1, FormatFloor, 57}

\* what docs.rs answers (head: "success", "missing" for 404, "error" for any
\* other status, "fails" when the request gets no answer): no build, a server
\* error, no build although the download would work, a failing request, a
\* failing download, bytes that are no zstd, a text that is no document, a
\* document
Responses ==
    {[head |-> "missing", get |-> "error", bytes |-> [zstd |-> FALSE, text |-> JNull]],
     [head |-> "error", get |-> "error", bytes |-> [zstd |-> FALSE, text |-> JNull]],
     [head |-> "missing", get |-> "success", bytes |-> [zstd |-> TRUE, text |-> DocText(57)]],
     [head |-> "fails", get |-> "error", bytes |-> [zstd |-> FALSE, text |-> JNull]],
     [head |-> "success", get |-> "error", bytes |-> [zstd |-> FALSE, text |-> JNull]],
     [head |-> "success", get |-> "success", bytes |-> [zstd |-> FALSE, text |-> JNull]],
     [head |-> "success", get |-> "success", bytes |-> [zstd |-> TRUE, text |-> NoDocText]]}
    \cup {[head |-> "success", get |-> "success",
           bytes |-> [zstd |-> TRUE, text |-> DocText(v)]] : v \in Versions}

\* the files an earlier run can have left for a url: none, a broken one, an
\* entry with a document that was downloaded then
FilesLeft(url) ==
    {NoFile, BrokenFile} \cup {CacheEntry(0, url, DocText(v)) : v \in Versions}

FetchInit ==
    /\ server \in [CrateNames -> Responses]
    /\ disk \in {d \in [CrateNames -> UNION {FilesLeft(docs_url(n, S_version_1)) : n \in CrateNames}] :
                    \A n \in CrateNames : d[n] \in FilesLeft(docs_url(n, S_version_1))}
    /\ now = 0
    /\ ticks = 0
    /\ fetched = NotRun
    /\ served = NotRun
    /\ OthersIdle("fetch")

\* one call of fetch_rustdoc_json
Fetch ==
    \E name \in CrateNames :
        LET r == fetch_rustdoc_json(name, S_version_1, server[name], disk[name], now)
        IN /\ fetched' = [run |-> TRUE, name |-> name, result |-> r.result, got |-> r.got,
                          head |-> head_check(server[name]), log |-> r.log,
                          before |-> disk[name]]
           /\ disk' = [disk EXCEPT ![name] = r.file]
           /\ UNCHANGED <<server, now, ticks, served>>
           /\ OthersUnchanged("fetch")

\* time passes: a second, or the time a cache entry lives
Tick ==
    /\ ticks < MaxTicks
    /\ \E d \in {1, CACHE_TTL_SECS} : now' = now + d
    /\ ticks' = ticks + 1
    /\ UNCHANGED <<server, disk, fetched, served>>
    /\ OthersUnchanged("fetch")

FetchNext == Fetch \/ Tick

SpecFetch == FetchInit /\ [][FetchNext]_vars

\* what a server answers a GET of DiskCache: no answer, a status that is no
\* success, bytes that are no text, a JSON text that is no document, a document
\* as text and as zstd bytes
Bodies ==
    {[head |-> "success", get |-> "fails", bytes |-> [zstd |-> FALSE, text |-> JNull]],
     [head |-> "success", get |-> "error", bytes |-> [zstd |-> FALSE, text |-> DocText(57)]],
     [head |-> "success", get |-> "success", bytes |-> [zstd |-> FALSE, text |-> NoDocText]],
     [head |-> "success", get |-> "success", bytes |-> [zstd |-> FALSE, text |-> DocText(57)]],
     [head |-> "success", get |-> "success", bytes |-> [zstd |-> TRUE, text |-> DocText(57)]]}

\* the files an earlier run can have left for a url: none, a broken one, an
\* entry that get_json or get_zstd_json wrote, an entry that get_text wrote
BodiesLeft(url) ==
    {NoFile, BrokenFile, CacheEntry(0, url, DocText(57)),
     CacheEntry(0, url, text_to_string(DocText(57)))}

CacheInit ==
    /\ server \in [CrateNames -> Bodies]
    /\ disk \in {d \in [CrateNames -> UNION {BodiesLeft(docs_url(n, S_version_1)) : n \in CrateNames}] :
                    \A n \in CrateNames : d[n] \in BodiesLeft(docs_url(n, S_version_1))}
    /\ now = 0
    /\ ticks = 0
    /\ fetched = NotRun
    /\ served = NotRun
    /\ OthersIdle("fetch")

\* what a call of a getter leaves behind (before, at: the file and the clock
\* when it was called)
serve_call(via, name, r, before, at) ==
    [run |-> TRUE, via |-> via, name |-> name, result |-> r.result, log |-> r.log,
     before |-> before, at |-> at]

\* one call of get_json
GetJson ==
    \E name \in CrateNames :
        /\ served' = serve_call("get_json", name,
                         get_json(disk[name], server[name], docs_url(name, S_version_1), now),
                         disk[name], now)
        /\ disk' = [disk EXCEPT ![name] =
                        get_json(disk[name], server[name], docs_url(name, S_version_1), now).file]
        /\ UNCHANGED <<server, now, ticks, fetched>>
        /\ OthersUnchanged("fetch")

\* one call of get_zstd_json
GetZstdJson ==
    \E name \in CrateNames :
        /\ served' = serve_call("get_zstd_json", name,
                         get_zstd_json(disk[name], server[name], docs_url(name, S_version_1), now),
                         disk[name], now)
        /\ disk' = [disk EXCEPT ![name] =
                        get_zstd_json(disk[name], server[name], docs_url(name, S_version_1), now).file]
        /\ UNCHANGED <<server, now, ticks, fetched>>
        /\ OthersUnchanged("fetch")

\* one call of get_text
GetText ==
    \E name \in CrateNames :
        /\ served' = serve_call("get_text", name,
                         get_text(disk[name], server[name], docs_url(name, S_version_1), now),
                         disk[name], now)
        /\ disk' = [disk EXCEPT ![name] =
                        get_text(disk[name], server[name], docs_url(name, S_version_1), now).file]
        /\ UNCHANGED <<server, now, ticks, fetched>>
        /\ OthersUnchanged("fetch")

CacheNext == GetJson \/ GetZstdJson \/ GetText \/ Tick

SpecCache == CacheInit /\ [][CacheNext]_vars

-----------------------------------------------------------------------------
(* Properties of fetch_rustdoc_json *)

\* get_zstd_json handed a document of a version below the floor to the last call
GotUnsupported ==
    /\ fetched # NotRun
    /\ fetched.got.ok
    /\ fetched.got.value.doc.format_version < 33

\* C19: fetch_rustdoc_json never returns a document whose format_version is
\* below 33; when the document it got is below 33, downloaded or read from the
\* cache, the result is an error whose message names that version.
C19_VersionFloor ==
    fetched # NotRun =>
        /\ fetched.result.ok => fetched.result.value.doc.format_version >= 33
        /\ GotUnsupported =>
              /\ ~fetched.result.ok
              /\ starts_with(fetched.result.msg,
                     <<"U","n","s","u","p","p","o","r","t","e","d"," ",
                       "r","u","s","t","d","o","c"," ","J","S","O","N"," ",
                       "f","o","r","m","a","t"," ","v","e","r","s","i","o","n",":"," ">>
                     \o num_to_string(fetched.got.value.doc.format_version) \o <<".">>)

\* C19 witness: a document of version 32 that an earlier call of this run
\* downloaded and cached is read from the cache and refused again
C19_Witness ==
    /\ GotUnsupported
    /\ fetched.got.value.source = "cache"
    /\ disk[fetched.name].file = "entry"
    /\ disk[fetched.name].cached_at > 0
    /\ ~fetched.result.ok

\* C27: fetch_rustdoc_json sends the HEAD request first, and a GET only after a
\* HEAD that was answered with success; when the HEAD is answered 404 (no
\* successful build) the call returns DocsNotFound with the crate name and the
\* version, sends no GET, and neither reads nor writes nor removes the cache
\* file, which stays as it was.
C27_HeadBeforeDownload ==
    fetched # NotRun =>
        /\ Len(fetched.log) > 0 /\ fetched.log[1] = "HEAD"
        /\ (\E i \in 1..Len(fetched.log) : fetched.log[i] = "GET") =>
              server[fetched.name].head = "success"
        /\ server[fetched.name].head = "missing" =>
              /\ fetched.result = Err("DocsNotFound", fetched.name \o <<" ">> \o S_version_1)
              /\ fetched.log = <<"HEAD">>
              /\ disk[fetched.name] = fetched.before

\* C27 witness: the HEAD was answered 404 for a crate whose download would
\* have worked and whose document is in the cache
C27_Witness ==
    /\ fetched # NotRun
    /\ server[fetched.name].head = "missing"
    /\ server[fetched.name].get = "success"
    /\ fetched.before.file = "entry"
    /\ ~fetched.result.ok

\* C28: head_check returns true when the HEAD is answered with success, false
\* when it is answered 404, and an error in every other case: no answer, or any
\* other status.
C28_HeadCheckResult ==
    fetched # NotRun =>
        /\ server[fetched.name].head = "success" => fetched.head = Ok(TRUE)
        /\ server[fetched.name].head = "missing" => fetched.head = Ok(FALSE)
        /\ server[fetched.name].head \in {"fails", "error"} => ~fetched.head.ok

\* the file the last getter call found holds an entry that was at most 24
\* hours old then
FoundFresh ==
    /\ served.before.file = "entry"
    /\ served.at - served.before.cached_at <= 24 * 60 * 60

InLog(what) == \E i \in 1..Len(served.log) : served.log[i] = what

\* the body the server sends decodes for the getter: zstd bytes of a document
\* for get_zstd_json, the text of a document for get_json, any text for get_text
BodyDecodes ==
    LET bytes == server[served.name].bytes
    IN CASE served.via = "get_zstd_json" ->
                bytes.zstd /\ Get(bytes.text, "format_version").t = "num"
         [] served.via = "get_json" ->
                ~bytes.zstd /\ Get(bytes.text, "format_version").t = "num"
         [] OTHER -> TRUE

\* C29: after a call of get_json, get_zstd_json or get_text: if the file held a
\* well-formed entry at most 24 hours old, no request was sent, the file is as
\* it was and a value comes from the cache; a file that was broken or held an
\* older entry was removed and the request sent, as for no file; the file was
\* written only after a GET with a success status and a body that decodes, and
\* then holds an entry of the time of the call; after a request that failed
\* nothing was written and there is no file.
C29_CachePolicy ==
    served # NotRun =>
        /\ FoundFresh =>
              /\ ~InLog("GET")
              /\ disk[served.name] = served.before
              /\ served.result.ok => served.result.value.source = "cache"
        /\ served.before.file # "none" /\ ~FoundFresh =>
              InLog("remove") /\ InLog("GET")
        /\ served.before.file = "none" => InLog("GET")
        /\ InLog("write") =>
              /\ InLog("GET")
              /\ server[served.name].get = "success"
              /\ BodyDecodes
              /\ served.result.ok
              /\ disk[served.name].file = "entry"
              /\ disk[served.name].cached_at = served.at
        /\ InLog("GET") /\ ~served.result.ok =>
              ~InLog("write") /\ disk[served.name].file = "none"

\* C29 witness: an entry that a getter wrote earlier in the run was served when
\* it was exactly 24 hours old, without a request
C29_Witness ==
    /\ served # NotRun
    /\ served.before.file = "entry"
    /\ served.before.cached_at > 0
    /\ served.at - served.before.cached_at = 24 * 60 * 60
    /\ served.result.ok
    /\ ~InLog("GET")

-----------------------------------------------------------------------------
(* Item lookup by path: tools/crate_item_get.rs and tools/crate_impls_list.rs *)

\* str::split("::"): the pieces between the separators, one piece at least
RECURSIVE split_colons(_)
split_colons(s) ==
    IF \E i \in 1..(Len(s) - 1) : s[i] = ":" /\ s[i + 1] = ":"
    THEN LET i == CHOOSE k \in 1..(Len(s) - 1) :
                     /\ s[k] = ":" /\ s[k + 1] = ":"
                     /\ \A m \in 1..(k - 1) : ~(s[m] = ":" /\ s[m + 1] = ":")
         IN <<SubSeq(s, 1, i - 1)>> \o split_colons(SubSeq(s, i + 2, Len(s)))
    ELSE <<s>>

\* crate_item_get.rs lines 66-72: how many pieces of target_rest the scan of
\* stored_rest from position si on matches, ti being matched already
RECURSIVE scan_matched(_, _, _, _)
scan_matched(stored_rest, target_rest, si, ti) ==
    IF si > Len(stored_rest) THEN ti
    ELSE IF ti < Len(target_rest) /\ stored_rest[si] = target_rest[ti + 1]
    THEN scan_matched(stored_rest, target_rest, si + 1, ti + 1)
    ELSE scan_matched(stored_rest, target_rest, si + 1, ti)

\* crate_item_get.rs lines 59-73: the re-export rule, the crate names equal and
\* the rest of the target a subsequence of the rest of the stored path
subsequence_match(parts, target_parts) ==
    /\ Len(parts) > 0
    /\ Len(target_parts) > 0
    /\ parts[1] = target_parts[1]
    /\ Len(target_parts) > 1
    /\ scan_matched(Tail(parts), Tail(target_parts), 1, 0) = Len(target_parts) - 1

\* Iterator::find over the path table: the id of the first entry that fits
first_id(entries) == IF Len(entries) > 0 THEN JStr(entries[1].id) ELSE Absent

\* crate_item_get.rs lines 53-56 and 75: the first entry whose full path is the
\* target, else the first that the re-export rule matches
or_else(found, fallback) == IF Present(found) THEN found ELSE fallback

find_item_id(d, target_path) ==
    or_else(first_id(SelectSeq(d.paths, LAMBDA e : full_path(e.entry) = target_path)),
            first_id(SelectSeq(d.paths, LAMBDA e :
                         subsequence_match(e.entry.path, split_colons(target_path)))))

S_item_q == <<"I","t","e","m"," ","'">>
S_type_q == <<"T","y","p","e"," ","'">>
S_not_found_in == <<"'"," ","n","o","t"," ","f","o","u","n","d"," ","i","n"," ">>
S_reexported_in == <<"'"," ","i","s"," ","r","e","-","e","x","p","o","r","t","e","d"," ","i","n"," ">>
S_from_external == <<" ","f","r","o","m"," ","a","n"," ","e","x","t","e","r","n","a","l"," ","c","r","a","t","e"," ","(">>
S_not_in_docs == <<")","."," ","I","t","s"," ","f","u","l","l"," ","d","e","f","i","n","i","t","i","o","n"," ","i","s"," ","n","o","t"," ","i","n"," ","t","h","e"," ">>
S_docs_hint == <<" ","d","o","c","s","."," ","L","o","o","k"," ","i","t"," ","u","p"," ","i","n"," ","t","h","e"," ","c","r","a","t","e"," ","t","h","a","t"," ","d","e","f","i","n","e","s"," ","i","t"," ","u","s","i","n","g"," ","c","r","a","t","e","_","i","t","e","m","_","g","e","t",".">>
S_use_list == <<"."," ","U","s","e"," ","c","r","a","t","e","_","i","t","e","m","_","l","i","s","t","(","n","a","m","e","=","\"">>
S_query == <<"\"",","," ","q","u","e","r","y","=","\"">>
S_to_search == <<"\"",")"," ","t","o"," ","s","e","a","r","c","h"," ","f","o","r"," ","a","v","a","i","l","a","b","l","e"," ","i","t","e","m","s"," ","a","n","d"," ","d","i","s","c","o","v","e","r"," ","t","h","e"," ","c","o","r","r","e","c","t"," ","p","a","t","h",".">>
S_external_def == <<"'"," ","i","s"," ","r","e","-","e","x","p","o","r","t","e","d"," ","f","r","o","m"," ","a","n"," ","e","x","t","e","r","n","a","l"," ","c","r","a","t","e"," ","a","n","d"," ","i","t","s"," ","f","u","l","l"," ","d","e","f","i","n","i","t","i","o","n"," ","i","s"," ","n","o","t"," ","a","v","a","i","l","a","b","l","e"," ","i","n"," ","t","h","e"," ">>
S_try_direct == <<" ","d","o","c","s","."," ","T","r","y"," ","l","o","o","k","i","n","g"," ","i","t"," ","u","p"," ","d","i","r","e","c","t","l","y"," ","i","n"," ","t","h","e"," ","c","r","a","t","e"," ","t","h","a","t"," ","d","e","f","i","n","e","s"," ","i","t",".">>
S_item_id == <<"I","t","e","m"," ","I","D"," ">>
S_not_in_index == <<" ","n","o","t"," ","i","n"," ","i","n","d","e","x">>

\* ErrorData::invalid_params / ErrorData::internal_error
invalid_params(msg) == [ok |-> FALSE, code |-> "invalid_params", msg |-> msg]
internal_error(msg) == [ok |-> FALSE, code |-> "internal_error", msg |-> msg]

\* crate_item_get.rs lines 81-93: the sources of the `use` items of the index
\* that have the target's last piece as name and no path entry, three at most
re_export_sources(d, last_component) ==
    LET uses == SelectSeq(d.index, LAMBDA e :
                    /\ \A i \in 1..Len(d.paths) : d.paths[i].id # e.id
                    /\ e.item.name = JStr(last_component)
                    /\ KindIs(e.item, "use")
                    /\ IsStr(Get(inner_for(e.item, "use"), "source")))
    IN [i \in 1..(IF Len(uses) < 3 THEN Len(uses) ELSE 3) |->
           Get(inner_for(uses[i].item, "use"), "source").v]

\* crate_item_get.rs lines 95-111: the error for a path that no entry matches
item_not_found(sources, target_path, last_component, name, version) ==
    IF Len(sources) > 0
    THEN invalid_params(S_item_q \o target_path \o S_reexported_in \o name \o <<" ">>
             \o version \o S_from_external \o join(sources, S_comma) \o S_not_in_docs
             \o name \o S_docs_hint)
    ELSE invalid_params(S_item_q \o target_path \o S_not_found_in \o name \o <<" ">>
             \o version \o S_use_list \o name \o S_query \o last_component \o S_to_search)

\* the path entry of an id of the path table
paths_get(d, id) == d.paths[CHOOSE i \in 1..Len(d.paths) : d.paths[i].id = id].entry

\* crate_item_get.rs lines 114-126: the item of the id that was found
item_of_id(d, id, name) ==
    IF id \in IndexIds(d) THEN [ok |-> TRUE, id |-> id]
    ELSE invalid_params(S_item_q \o full_path(paths_get(d, id)) \o S_external_def
                        \o name \o S_try_direct)

last_of(parts) == parts[Len(parts)]

\* crate_item_get.rs lines 47-126: the item that execute goes on with, or the
\* error it returns
item_get_lookup(d, found, target_path, name, version) ==
    IF Present(found) THEN item_of_id(d, found.v, name)
    ELSE item_not_found(re_export_sources(d, last_of(split_colons(target_path))),
                        target_path, last_of(split_colons(target_path)), name, version)

\* crate_impls_list.rs lines 110-142
impls_list_lookup(d, found, type_path_str, name, version) ==
    IF ~Present(found)
    THEN invalid_params(S_type_q \o type_path_str \o S_not_found_in \o name \o <<" ">>
                        \o version)
    ELSE IF found.v \in IndexIds(d) THEN [ok |-> TRUE, id |-> found.v]
    ELSE internal_error(S_item_id \o found.v \o S_not_in_index)

-----------------------------------------------------------------------------
(* The documents and paths of the lookups *)

S_k_a_x == <<"k",":",":","a",":",":","x">>
S_k_x == <<"k",":",":","x">>
S_k_b_x == <<"k",":",":","b",":",":","x">>
S_j_x == <<"j",":",":","x">>
S_ext_x == <<"e","x","t",":",":","x">>

\* the stored paths: two that the same shorter paths match, a short one, one of
\* another crate, one under another module, an empty one
StoredPaths ==
    {<<N_k, N_a, N_b, N_x>>, <<N_k, N_a, N_j, N_x>>, <<N_k, N_a, N_x>>,
     <<N_j, N_a, N_x>>, <<N_k, N_b, N_x>>, <<>>}

TargetPaths == {S_k_a_x, S_k_x, S_k_b_x, S_j_x, N_k, S_empty}

\* the document of a sequence of stored paths: the entry at position i has id
\* "i"; the index holds the items of the entries or not, and a `use` item named
\* x that has no path entry or not
MakeLookupDoc(stored, indexed, with_use) ==
    [paths |-> [i \in 1..Len(stored) |->
                   [id |-> num_to_string(i), entry |-> PathEntry(S_struct, stored[i])]],
     index |-> (IF indexed
                THEN [i \in 1..Len(stored) |->
                         [id |-> num_to_string(i),
                          item |-> Item(JStr(N_x), JNull, <<>>, JObj([struct |-> JObj(<<>>)]))]]
                ELSE <<>>)
               \o (IF with_use
                   THEN <<[id |-> num_to_string(9),
                           item |-> Item(JStr(N_x), JNull, <<>>,
                                         JObj([use |-> JObj([source |-> JStr(S_ext_x)])]))]>>
                   ELSE <<>>)]

LookupInit ==
    /\ \E n \in 0..NumItems : \E stored \in [1..n -> StoredPaths] :
          /\ \A i, j \in 1..n : i # j => stored[i] # stored[j]
          /\ \E indexed, with_use \in BOOLEAN :
                lookup_doc = MakeLookupDoc(stored, indexed, with_use)
    /\ lookup = NotRun
    /\ OthersIdle("lookup")

\* crate_item_get: the lookup of item_path (found is a ghost field: the id the
\* path table gave)
ItemGet ==
    /\ \E target \in TargetPaths :
          lookup' = [run |-> TRUE, tool |-> "crate_item_get", path |-> target,
                     found |-> find_item_id(lookup_doc, target),
                     result |-> item_get_lookup(lookup_doc, find_item_id(lookup_doc, target),
                                                target, N_k, S_version_1)]
    /\ UNCHANGED lookup_doc
    /\ OthersUnchanged("lookup")

\* crate_impls_list: the lookup of type_path
ImplsList ==
    /\ \E target \in TargetPaths :
          lookup' = [run |-> TRUE, tool |-> "crate_impls_list", path |-> target,
                     found |-> find_item_id(lookup_doc, target),
                     result |-> impls_list_lookup(lookup_doc, find_item_id(lookup_doc, target),
                                                  target, N_k, S_version_1)]
    /\ UNCHANGED lookup_doc
    /\ OthersUnchanged("lookup")

LookupNext == ItemGet \/ ImplsList

SpecLookup == LookupInit /\ [][LookupNext]_vars

-----------------------------------------------------------------------------
(* Properties of the lookups *)

\* the entries of the path table that the re-export rule matches for the path
\* that was asked for
RuleMatches ==
    {i \in 1..Len(lookup_doc.paths) :
        subsequence_match(lookup_doc.paths[i].entry.path, split_colons(lookup.path))}

NoExactMatch ==
    \A i \in 1..Len(lookup_doc.paths) : full_path(lookup_doc.paths[i].entry) # lookup.path

\* no entry fits, or two entries with different full paths fit
NoneOrAmbiguous ==
    \/ RuleMatches = {}
    \/ \E i, j \in RuleMatches :
          full_path(lookup_doc.paths[i].entry) # full_path(lookup_doc.paths[j].entry)

\* C20: a lookup by a path that equals no full path of the path table and that
\* the re-export rule matches with no entry, or with two or more entries of
\* different full paths, ends in an invalid_params error whose message names the
\* path, the crate and the version; no item is picked.
C20_NoSilentSubstitute ==
    (lookup # NotRun /\ NoExactMatch /\ NoneOrAmbiguous) =>
        /\ ~lookup.result.ok
        /\ lookup.result.code = "invalid_params"
        /\ contains(lookup.result.msg, <<"'">> \o lookup.path \o <<"'">>)
        /\ contains(lookup.result.msg, <<" ">> \o N_k \o <<" ">> \o <<"1">>)

-----------------------------------------------------------------------------
(* Method parent map on its own: one call of build_method_parent_map on the  *)
(* documents of the search                                                   *)

BuildMethodParentMap ==
    /\ parent_map = NotRun
    /\ parent_map' = [run |-> TRUE, out |-> build_method_parent_map(doc)]
    /\ OthersUnchanged("map")

MapNext == BuildMethodParentMap

SpecMap == SearchInit /\ [][MapNext]_vars

-----------------------------------------------------------------------------
(* The three readers of the index on one document: build_module_tree,        *)
(* build_method_parent_map and search_items                                   *)

\* what an index entry can be: items without a kind (inner null, or an object
\* without a key) with and without a path entry, a module and two inherent impls
\* that list every id of the index, their own and each other's included, and a
\* method
ReaderPool ==
    { [item |-> Item(JStr(N_a), JNull, <<>>, JNull),
       entry |-> <<PathEntry(S_function, <<N_k, N_a>>)>>],
      [item |-> Item(JStr(N_a), JStr(S_docs_ab_c), <<>>, JObj(<<>>)), entry |-> <<>>],
      [item |-> Item(JStr(N_k), JNull, <<>>, JObj([module |-> JObj([items |-> ListedIds(FALSE)])])),
       entry |-> <<PathEntry(S_module, <<N_k>>)>>],
      [item |-> Item(JNull, JNull, <<>>,
                     ImplInner(JNull, JObj([resolved_path |->
                                   JObj([id |-> JNum(0), path |-> JStr(N_Ab)])]), FALSE)),
       entry |-> <<>>],
      [item |-> Item(JNull, JNull, <<>>,
                     ImplInner(Absent, JObj([primitive |-> JStr(N_j)]), TRUE)),
       entry |-> <<>>],
      [item |-> Item(JStr(N_ab), JNull, <<>>, FnInner(TRUE)), entry |-> <<>>] }

\* the document of a sequence of pool entries, with the first entry as its root
WithRoot(d) == [index |-> d.index, paths |-> d.paths, root |-> JNum(1)]

ReadersInit ==
    /\ \E n \in 0..NumItems : \E chosen \in [1..n -> ReaderPool] :
          /\ \A i, j \in 1..n : i # j => chosen[i] # chosen[j]
          /\ doc = MakeDoc(chosen)
          /\ tree_doc = WithRoot(MakeDoc(chosen))
    /\ call = NoCall
    /\ results = <<>>
    /\ tree = NotRun
    /\ TypeIdle /\ FeatIdle /\ SigIdle /\ FetchIdle /\ LookupIdle /\ MapIdle
    /\ IndexIdle /\ WalkIdle

ReadersNext == BuildModuleTree \/ BuildMethodParentMap \/ SearchItems

SpecReaders == ReadersInit /\ [][ReadersNext]_vars

-----------------------------------------------------------------------------
(* Properties of the readers on items without a kind *)

\* the ids of the index items whose payload names no kind
KindlessIds == {id \in IndexIds(doc) : ~HasKind(index_get(doc, id))}

\* the document without its items that have no kind
WithoutKindless(d) ==
    [index |-> SelectSeq(d.index, LAMBDA e : HasKind(e.item)), paths |-> d.paths]

\* the sum of the counts of a node
RECURSIVE SumOver(_, _)
SumOver(counts, keys) ==
    IF keys = {} THEN 0
    ELSE LET k == CHOOSE x \in keys : TRUE
         IN counts[k] + SumOver(counts, keys \ {k})

\* how many entries of a module's list are items of the index that have a kind
\* and are no re-exports
ListedWithKind(id) ==
    Cardinality({i \in 1..Len(module_items(index_get(tree_doc, id))) :
        LET v == module_items(index_get(tree_doc, id))[i]
        IN /\ IdIsText(v)
           /\ id_val_to_string(v) \in IndexIds(tree_doc)
           /\ KindOfId(id_val_to_string(v)) \notin {"unknown", "use", "import"}})

\* C21: an item whose payload names no kind is skipped by every reader: it is
\* no node of the module tree, no entry of a node's items list and not counted
\* in a node's item_counts; the method parent map is the map of the document
\* without it; and search_items returns no result made from it.
C21_KindlessSkipped ==
    /\ \A x \in ResultNodes :
          /\ x.node.id \notin KindlessIds
          /\ \A i \in 1..Len(x.node.items) : x.node.items[i].id \notin KindlessIds
          /\ "unknown" \notin DOMAIN x.node.item_counts
          /\ SumOver(x.node.item_counts, DOMAIN x.node.item_counts) = ListedWithKind(x.node.id)
    /\ parent_map # NotRun =>
          parent_map.out = build_method_parent_map(WithoutKindless(doc))
    /\ call # NoCall => \A i \in 1..Len(results) : results[i].id \notin KindlessIds

-----------------------------------------------------------------------------
(* Sparse index: sparse_index/types.rs, find_latest_stable.  A line of the   *)
(* index is its version string and its yanked flag.                          *)

MaxLines == 2

\* str::split at a character
RECURSIVE split_char(_, _)
split_char(s, c) ==
    IF \E i \in 1..Len(s) : s[i] = c
    THEN LET i == CHOOSE k \in 1..Len(s) : s[k] = c /\ \A m \in 1..(k - 1) : s[m] # c
         IN <<SubSeq(s, 1, i - 1)>> \o split_char(SubSeq(s, i + 1, Len(s)), c)
    ELSE <<s>>

\* the text before the first c, and the text after it (nothing if there is no c)
before_first(s, c) == split_char(s, c)[1]
after_first(s, c) ==
    IF Len(before_first(s, c)) = Len(s) THEN <<>>
    ELSE SubSeq(s, Len(before_first(s, c)) + 2, Len(s))

is_digits(s) == Len(s) > 0 /\ \A i \in 1..Len(s) : \E d \in 1..10 : Digits[d] = s[i]

RECURSIVE parse_num(_)
parse_num(s) ==
    IF Len(s) = 0 THEN 0
    ELSE parse_num(SubSeq(s, 1, Len(s) - 1)) * 10
         + (CHOOSE d \in 0..9 : Digits[d + 1] = s[Len(s)])

\* line 100, semver::Version::parse(..).ok(): MAJOR.MINOR.PATCH, then `-` and the
\* pre-release tag, then `+` and the build metadata
parse_version(vers) ==
    LET core == split_char(before_first(before_first(vers, "+"), "-"), ".")
    IN IF Len(core) = 3 /\ \A i \in 1..3 : is_digits(core[i])
       THEN [some |-> TRUE,
             major |-> parse_num(core[1]), minor |-> parse_num(core[2]),
             patch |-> parse_num(core[3]),
             pre |-> after_first(before_first(vers, "+"), "-"),
             build |-> after_first(vers, "+")]
       ELSE [some |-> FALSE]

\* Ord of one dot-separated identifier of a pre-release tag: numbers below
\* words, numbers by value, words by their bytes
ident_less(a, b) ==
    IF is_digits(a) /\ is_digits(b) THEN parse_num(a) < parse_num(b)
    ELSE IF is_digits(a) THEN TRUE
    ELSE IF is_digits(b) THEN FALSE
    ELSE StrLess(a, b)

RECURSIVE idents_less(_, _)
idents_less(a, b) ==
    IF Len(b) = 0 THEN FALSE
    ELSE IF Len(a) = 0 THEN TRUE
    ELSE IF a[1] = b[1] THEN idents_less(Tail(a), Tail(b))
    ELSE ident_less(a[1], b[1])

\* Ord of Prerelease: no tag is above every tag
pre_less(a, b) ==
    IF Len(a) = 0 THEN FALSE
    ELSE IF Len(b) = 0 THEN TRUE
    ELSE idents_less(split_char(a, "."), split_char(b, "."))

\* Ord of Option<Version>: None is below every version; versions by major,
\* minor, patch, pre-release tag and then build metadata
key_less(a, b) ==
    IF ~b.some THEN FALSE
    ELSE IF ~a.some THEN TRUE
    ELSE IF a.major # b.major THEN a.major < b.major
    ELSE IF a.minor # b.minor THEN a.minor < b.minor
    ELSE IF a.patch # b.patch THEN a.patch < b.patch
    ELSE IF a.pre # b.pre THEN pre_less(a.pre, b.pre)
    ELSE StrLess(a.build, b.build)

\* Iterator::max_by_key over a vector that is not empty: the last of the
\* elements with the greatest key
RECURSIVE max_by_key(_)
max_by_key(v) ==
    IF Len(v) = 1 THEN v[1]
    ELSE LET best == max_by_key(SubSeq(v, 1, Len(v) - 1))
         IN IF key_less(parse_version(v[Len(v)].vers), parse_version(best.vers))
            THEN best ELSE v[Len(v)]

\* line 94: not yanked, and no `-` in the version string
is_stable(l) == ~l.yanked /\ ~contains(l.vers, <<"-">>)

FoundLine(l) == [found |-> TRUE, line |-> l]
NoLine == [found |-> FALSE]

\* lines 88-108
find_latest_stable(index) ==
    IF Len(SelectSeq(index, is_stable)) > 0
    THEN FoundLine(max_by_key(SelectSeq(index, is_stable)))
    ELSE IF Len(SelectSeq(index, LAMBDA l : ~l.yanked)) > 0
    THEN FoundLine(max_by_key(SelectSeq(index, LAMBDA l : ~l.yanked)))
    ELSE NoLine

-----------------------------------------------------------------------------
(* The index lines find_latest_stable is checked on *)

S_alpha == <<"a","l","p","h","a">>
S_beta == <<"b","e","t","a">>
S_curl_7 == <<"c","u","r","l","-","7">>

\* MAJOR.MINOR.PATCH-PRE+BUILD
version_string(core, pre, build) ==
    join(<<num_to_string(core[1]), num_to_string(core[2]), num_to_string(core[3])>>, <<".">>)
    \o (IF Len(pre) > 0 THEN <<"-">> \o pre ELSE <<>>)
    \o (IF Len(build) > 0 THEN <<"+">> \o build ELSE <<>>)

VersionStrings ==
    {version_string(core, pre, build) :
        core \in {<<0, 9, 0>>, <<0, 10, 0>>, <<1, 0, 0>>},
        pre \in {<<>>, S_alpha, S_beta},
        build \in {<<>>, S_curl_7}}

IndexLines == [vers : VersionStrings, yanked : BOOLEAN]

\* two version strings that differ in more than their build metadata (the
\* registry takes no two versions that differ in the build metadata only)
other_version(a, b) == before_first(a, "+") # before_first(b, "+")

IndexInit ==
    /\ \E n \in 0..MaxLines : \E chosen \in [1..n -> IndexLines] :
          /\ \A i, j \in 1..n : i # j => other_version(chosen[i].vers, chosen[j].vers)
          /\ index_lines = chosen
    /\ latest = NotRun
    /\ OthersIdle("index")

\* one call of find_latest_stable
FindLatestStable ==
    /\ latest = NotRun
    /\ latest' = [run |-> TRUE, out |-> find_latest_stable(index_lines)]
    /\ UNCHANGED index_lines
    /\ OthersUnchanged("index")

IndexNext == FindLatestStable

SpecIndex == IndexInit /\ [][IndexNext]_vars

-----------------------------------------------------------------------------
(* Properties of find_latest_stable *)

\* the lines that are not yanked, and those of them without a pre-release tag
LiveLines == {index_lines[i] : i \in {k \in 1..Len(index_lines) : ~index_lines[k].yanked}}
UntaggedLines == {l \in LiveLines : Len(parse_version(l.vers).pre) = 0}

\* semver precedence: major, minor, patch, then the pre-release tag
Precedes(a, b) ==
    key_less([parse_version(a.vers) EXCEPT !.build = <<>>],
             [parse_version(b.vers) EXCEPT !.build = <<>>])

HighestOf(l, among) == l \in among /\ \A o \in among : ~Precedes(l, o)

\* C22: find_latest_stable never returns a yanked line; when some line is not
\* yanked and has no pre-release tag it returns the highest such line by semver,
\* otherwise the highest line that is not yanked; it returns None when no line
\* is left (the list is empty or every line is yanked).
C22_LatestStable ==
    latest # NotRun =>
        /\ latest.out.found => ~latest.out.line.yanked
        /\ UntaggedLines # {} =>
              latest.out.found /\ HighestOf(latest.out.line, UntaggedLines)
        /\ UntaggedLines = {} /\ LiveLines # {} =>
              latest.out.found /\ HighestOf(latest.out.line, LiveLines)
        /\ LiveLines = {} => ~latest.out.found

-----------------------------------------------------------------------------
(* The type renderer on nodes that carry the keys of two shapes *)

\* the nodes of one shape: well-formed and malformed, around the leaf types
OneShapeNodes ==
    {x \in LeafTypes \cup MalformedLeaves \cup UNION {ShapesAround(t) : t \in LeafTypes} :
        IsObj(x) /\ DOMAIN x.v # {}}

\* one object with the keys of both nodes
Merged(a, b) == JObj(a.v @@ b.v)

MergedInit ==
    /\ \E a \in OneShapeNodes, b \in OneShapeNodes : ty = Merged(a, b)
    /\ rendered = NotRun
    /\ OthersIdle("type")

SpecMerged == MergedInit /\ [][TypeNext]_vars

\* the keys that name a shape, in the order of the claim; `id` stands for the
\* direct path, whose keys are id, path and args
ShapeOrder ==
    <<"primitive", "generic", "resolved_path", "borrowed_ref", "tuple", "slice", "array",
      "raw_pointer", "impl_trait", "dyn_trait", "function_pointer", "qualified_path", "id">>

\* the node cut down to the keys of the n-th shape
ShapePart(x, n) ==
    LET keys == IF ShapeOrder[n] = "id" THEN {"id", "path", "args"} ELSE {ShapeOrder[n]}
    IN JObj([k \in keys \cap DOMAIN x.v |-> x.v[k]])

\* the n-th shape matches: the node has its key, and the part alone is rendered
\* by a rule, not dumped as raw JSON
ShapeMatches(x, n) ==
    /\ ShapeOrder[n] \in DOMAIN x.v
    /\ type_to_string(ShapePart(x, n)) # to_string(ShapePart(x, n))

MatchingShapes(x) == {n \in 1..Len(ShapeOrder) : ShapeMatches(x, n)}

\* C23: a node that is an object is rendered as the earliest of its shapes, in
\* the order null, primitive, generic, resolved_path, borrowed_ref, tuple,
\* slice, array, raw_pointer, impl_trait, dyn_trait, function_pointer,
\* qualified_path, direct path, that matches: the result is the rendering of
\* that shape's keys alone, whatever the keys of later shapes are; a node none
\* of whose shapes matches is dumped as raw JSON.
C23_EarliestShapeWins ==
    rendered # NotRun /\ IsObj(ty) =>
        IF MatchingShapes(ty) = {} THEN rendered.out = to_string(ty)
        ELSE \E n \in MatchingShapes(ty) :
                /\ \A m \in MatchingShapes(ty) : n <= m
                /\ rendered.out = type_to_string(ShapePart(ty, n))

\* a node with a function pointer and a qualified path, both well-formed, was
\* rendered
C23_Witness ==
    /\ rendered # NotRun
    /\ IsObj(ty)
    /\ {11, 12} \subseteq MatchingShapes(ty)
    /\ type_to_string(ShapePart(ty, 11)) # type_to_string(ShapePart(ty, 12))

-----------------------------------------------------------------------------
(* Properties of the first pass of search_items (checked under SpecSearch) *)

\* the kind a kind filter asks for: fn, mod and type stand for function, module
\* and type_alias
AskedKind(kf) ==
    CASE kf = S_fn -> S_function
      [] kf = S_mod -> S_module
      [] kf = S_type -> S_type_alias
      [] OTHER -> kf

\* the path-table entry of an index item passes both filters of the call, the
\* item has a display name, and the query is in the name or in the doc summary,
\* whatever the case of the letters
NamedMatch(id) ==
    LET entry == doc.paths[id]
        item == index_get(doc, id)
    IN /\ Present(call.kind_filter) => entry.kind = AskedKind(call.kind_filter.v)
       /\ Present(call.module_prefix) =>
             starts_with(join(entry.path, S_colons), call.module_prefix.v)
       /\ IsStr(item.name) /\ Len(item.name.v) > 0
       /\ \/ contains(to_lowercase(item.name.v), to_lowercase(call.query))
          \/ contains(to_lowercase(doc_summary(item)), to_lowercase(call.query))

\* C24: after a call, every path-table entry of an index item that passes the
\* kind filter (aliases fn, mod, type) and the module prefix filter, whose item
\* has a non-empty name and matches the query by name or doc summary, has a
\* result under its path and kind, unless the limit cut the candidates short.
C24_FirstPassComplete ==
    call # NoCall =>
        \A id \in DOMAIN doc.paths \cap IndexIds(doc) :
            NamedMatch(id) =>
                \/ \E i \in 1..Len(results) :
                      /\ results[i].id = id
                      /\ results[i].path = join(doc.paths[id].path, S_colons)
                      /\ results[i].kind = doc.paths[id].kind
                \/ call.limit < Len(candidates(doc, call))

\* a function found by its doc summary only, under the kind filter `fn`
C24_Witness ==
    /\ call # NoCall
    /\ call.kind_filter = JStr(S_fn)
    /\ \E id \in DOMAIN doc.paths \cap IndexIds(doc) :
          /\ NamedMatch(id)
          /\ ~contains(to_lowercase(index_get(doc, id).name.v), to_lowercase(call.query))
          /\ \E i \in 1..Len(results) : results[i].id = id

-----------------------------------------------------------------------------
(* Properties of build_method_parent_map (checked under SpecMap) *)

\* the index items that are impl blocks without a trait (null or no key)
InherentImpls ==
    {doc.index[i].item : i \in {k \in 1..Len(doc.index) :
        /\ KindIs(doc.index[k].item, "impl")
        /\ Get(Get(doc.index[k].item.inner, "impl"), "trait") \in {Absent, JNull}
        /\ Present(Get(Get(doc.index[k].item.inner, "impl"), "for"))}}

\* the path of an impl's target type: the path table's when the type names an
\* id that is listed there, else the type as the renderer writes it
TargetPath(impl_item) ==
    LET for_val == Get(Get(impl_item.inner, "impl"), "for")
        tid == IF Present(Get(for_val, "resolved_path"))
               THEN Get(Get(for_val, "resolved_path"), "id")
               ELSE IF Present(Get(for_val, "path")) THEN Get(for_val, "id")
               ELSE Absent
    IN IF IdIsText(tid) /\ id_val_to_string(tid) \in DOMAIN doc.paths
       THEN join(doc.paths[id_val_to_string(tid)].path, S_colons)
       ELSE type_to_string(for_val)

\* whether an impl block lists the id (as a number or as text)
Lists(impl_item, id) ==
    LET listed == Get(Get(impl_item.inner, "impl"), "items")
    IN IsArr(listed) /\ \E i \in 1..Len(listed.v) :
          IdIsText(listed.v[i]) /\ id_val_to_string(listed.v[i]) = id

\* every id some impl block of the index lists
ListedSomewhere ==
    UNION {{id_val_to_string(v) : v \in {w \in {Get(Get(doc.index[i].item.inner, "impl"), "items").v[j] :
                j \in 1..Len(Get(Get(doc.index[i].item.inner, "impl"), "items").v)} : IdIsText(w)}} :
           i \in {k \in 1..Len(doc.index) : KindIs(doc.index[k].item, "impl")
                     /\ IsArr(Get(Get(doc.index[k].item.inner, "impl"), "items"))}}

\* the target paths of the inherent impls that list the id
InherentParents(id) == {TargetPath(x) : x \in {y \in InherentImpls : Lists(y, id)}}

\* C25 as stated: an id that an inherent impl lists is in the map, under the
\* target path of one of the inherent impls that list it; an id that only trait
\* impls list is not in the map.
C25_InherentOnly ==
    parent_map # NotRun =>
        \A id \in ListedSomewhere \cup DOMAIN parent_map.out :
            IF InherentParents(id) # {}
            THEN id \in DOMAIN parent_map.out /\ parent_map.out[id] \in InherentParents(id)
            ELSE id \notin DOMAIN parent_map.out

\* C25 amended: as stated, for the inherent impls whose target path is not
\* empty; an inherent impl with an empty target path maps nothing.
C25_InherentWithPath ==
    parent_map # NotRun =>
        \A id \in ListedSomewhere \cup DOMAIN parent_map.out :
            IF InherentParents(id) \ {S_empty} # {}
            THEN /\ id \in DOMAIN parent_map.out
                 /\ parent_map.out[id] \in InherentParents(id) \ {S_empty}
            ELSE id \notin DOMAIN parent_map.out

\* the map was built from a document where two inherent impls with different
\* target paths, one from the path table and one from the renderer, and a
\* trait impl list the same id
C25_Witness ==
    /\ parent_map # NotRun
    /\ \E id \in DOMAIN parent_map.out :
          /\ Cardinality(InherentParents(id) \ {S_empty}) = 2
          /\ \E x \in InherentImpls : TargetPath(x) # type_to_string(Get(Get(x.inner, "impl"), "for"))
    /\ \E i \in 1..Len(doc.index) :
          /\ KindIs(doc.index[i].item, "impl")
          /\ doc.index[i].item \notin InherentImpls

-----------------------------------------------------------------------------
(* The traversals step by step: the calls of build_children (parser.rs        *)
(* 486-560) as a stack of frames, and the loops of search_items (644-770) as  *)
(* a cursor over the index.  A frame is the id list of a call, the position   *)
(* of its `for` loop and its depth.                                           *)

MaxWalk == 2

\* the frame of a call build_children(item_ids, doc, depth)
enter(item_ids, depth) == [ids |-> item_ids, pos |-> 1, depth |-> depth]

\* Mutant of advance: the loop stays at its element
advance_stuck(pos) == pos

\* the next element of a `for` loop
advance(pos) == pos + 1

top(stack) == stack[Len(stack)]
pop(stack) == SubSeq(stack, 1, Len(stack) - 1)

\* lines 494-507: the element under the loop is an id of a module of the index
at_module(d, frame) ==
    /\ IdIsText(frame.ids[frame.pos])
    /\ id_val_to_string(frame.ids[frame.pos]) \in IndexIds(d)
    /\ is_module(index_get(d, id_val_to_string(frame.ids[frame.pos])))

\* the call is over: it is past the depth cap (487-489) or its loop is done
returns(frame) == past_cap(frame.depth) \/ frame.pos > Len(frame.ids)

\* lines 456-476: build_module_tree is called; it returns at once without a
\* root module, else it calls build_children for the root's items at depth 0
StartTree ==
    /\ walk.pc = "ready"
    /\ IF root_id(walk_doc) \in IndexIds(walk_doc)
          /\ Present(inner_for(index_get(walk_doc, root_id(walk_doc)), "module"))
       THEN walk' = [walk EXCEPT !.pc = "children",
                        !.stack = <<enter(module_items(index_get(walk_doc, root_id(walk_doc))), 0)>>]
       ELSE walk' = [walk EXCEPT !.pc = "done"]
    /\ UNCHANGED walk_doc
    /\ OthersUnchanged("walk")

\* lines 496-507 and 555-557: an element that is no module of the index
Skip ==
    /\ walk.pc = "children"
    /\ ~returns(top(walk.stack))
    /\ ~at_module(walk_doc, top(walk.stack))
    /\ walk' = [walk EXCEPT !.stack[Len(walk.stack)].pos = advance(@)]
    /\ UNCHANGED walk_doc
    /\ OthersUnchanged("walk")

\* lines 507-545: a module; build_children is called for its items one level
\* deeper, and the loop goes on after the call
Descend ==
    /\ walk.pc = "children"
    /\ ~returns(top(walk.stack))
    /\ at_module(walk_doc, top(walk.stack))
    /\ LET frame == top(walk.stack)
           sub_items == module_items(index_get(walk_doc,
                            id_val_to_string(frame.ids[frame.pos])))
       IN walk' = [walk EXCEPT
                      !.stack = Append([walk.stack EXCEPT ![Len(walk.stack)].pos = advance(@)],
                                       enter(sub_items, frame.depth + 1)),
                      !.deepest = IF frame.depth + 1 > @ THEN frame.depth + 1 ELSE @]
    /\ UNCHANGED walk_doc
    /\ OthersUnchanged("walk")

\* lines 487-489 and 559: the call returns; the outermost one ends the traversal
Return ==
    /\ walk.pc = "children"
    /\ returns(top(walk.stack))
    /\ walk' = [walk EXCEPT !.stack = pop(@),
                            !.pc = IF Len(walk.stack) = 1 THEN "done" ELSE @]
    /\ UNCHANGED walk_doc
    /\ OthersUnchanged("walk")

\* lines 633-644: search_items is called, its first loop starts
StartSearch ==
    /\ walk.pc = "ready"
    /\ \E kf \in {Absent, JStr(S_fn)} :
          walk' = [walk EXCEPT !.pc = "pass1", !.filter = kf, !.cursor = 1]
    /\ UNCHANGED walk_doc
    /\ OthersUnchanged("walk")

\* the method parent map after the loop of build_method_parent_map looked at
\* the item (lines 587-616): the ids an inherent impl lists are inserted, not
\* looked up
map_after(d, map, item) ==
    IF maps_methods(d, item)
    THEN insert_all(map, method_ids(inner_for(item, "impl")),
                    parent_path_of(d, Get(inner_for(item, "impl"), "for")))
    ELSE map

\* one turn of a loop over the index: the first pass (644-711), the loop of
\* build_method_parent_map (587-616), the method pass (721-765)
LoopStep ==
    /\ walk.pc \in {"pass1", "parents", "pass2"}
    /\ walk.cursor <= Len(walk_doc.index)
    /\ walk' = [walk EXCEPT
                  !.cursor = advance(@),
                  !.map = IF walk.pc = "parents"
                          THEN map_after(walk_doc, @, walk_doc.index[walk.cursor].item)
                          ELSE @]
    /\ UNCHANGED walk_doc
    /\ OthersUnchanged("walk")

\* what follows a loop: after the first pass the method pass if it is wanted
\* (716-719), which starts with the method parent map; then the sort
after_loop(pc, kind_filter) ==
    IF pc = "pass1" THEN (IF want_methods(kind_filter) THEN "parents" ELSE "sort")
    ELSE IF pc = "parents" THEN "pass2"
    ELSE "sort"

LoopEnd ==
    /\ walk.pc \in {"pass1", "parents", "pass2"}
    /\ walk.cursor > Len(walk_doc.index)
    /\ walk' = [walk EXCEPT !.pc = after_loop(walk.pc, walk.filter), !.cursor = 1]
    /\ UNCHANGED walk_doc
    /\ OthersUnchanged("walk")

\* lines 768-771: sort, truncate, return
SortAndReturn ==
    /\ walk.pc = "sort"
    /\ walk' = [walk EXCEPT !.pc = "done"]
    /\ UNCHANGED walk_doc
    /\ OthersUnchanged("walk")

\* what the item at position i of n can be: a module that lists every id of
\* the index, its own included; a module that lists the next id, the last one
\* the first; an inherent impl that lists every id, those of the impl blocks
\* included; a method
WalkShapes == {"module_all", "module_ring", "impl_all", "function"}

WalkItem(shape, i, n) ==
    CASE shape = "module_all" ->
            Item(JStr(N_k), JNull, <<>>, JObj([module |-> JObj([items |-> AllIds(n)])]))
      [] shape = "module_ring" ->
            Item(JStr(N_j), JNull, <<>>,
                 JObj([module |-> JObj([items |-> JArr(<<JStr(num_to_string((i % n) + 1))>>)])]))
      [] shape = "impl_all" ->
            Item(JNull, JNull, <<>>,
                 JObj([impl |-> JObj([trait |-> JNull, for |-> JObj([primitive |-> JStr(N_j)]),
                                      items |-> AllIds(n)])]))
      [] OTHER -> Item(JStr(N_ab), JNull, <<>>, FnInner(TRUE))

\* the document of a sequence of shapes: the item at position i has the id "i",
\* the first item is the root
WalkDoc(shapes) ==
    [index |-> [i \in 1..Len(shapes) |->
                   [id |-> num_to_string(i), item |-> WalkItem(shapes[i], i, Len(shapes))]],
     paths |-> <<>>,
     root |-> JNum(1)]

WalkInit ==
    /\ \E n \in 0..MaxWalk : \E shapes \in [1..n -> WalkShapes] : walk_doc = WalkDoc(shapes)
    /\ walk = [NoWalk EXCEPT !.pc = "ready"]
    /\ OthersIdle("walk")

WalkNext ==
    \/ StartTree \/ Skip \/ Descend \/ Return
    \/ StartSearch \/ LoopStep \/ LoopEnd \/ SortAndReturn

\* a traversal that can take a step takes it
SpecWalk == WalkInit /\ [][WalkNext]_vars /\ WF_vars(WalkNext)

-----------------------------------------------------------------------------
(* Properties of the traversals *)

\* C26: build_module_tree and search_items finish on every document, also when
\* module item lists form a cycle or impl blocks list each other's ids: every
\* traversal that was started comes to its end.
C26_Terminates == <>(walk.pc = "done")

\* a traversal of the module tree that met a cycle of modules (it went past the
\* depth cap) is over, or a search is over whose map holds the id of an impl
\* block
C26_Witness ==
    /\ walk.pc = "done"
    /\ \/ walk.deepest > DepthCap
       \/ \E i \in 1..Len(walk_doc.index) :
             /\ KindIs(walk_doc.index[i].item, "impl")
             /\ walk_doc.index[i].id \in DOMAIN walk.map

\* the steps of the method parent map give the map of build_method_parent_map
WalkSameMap ==
    walk.pc = "pass2" => walk.map = build_method_parent_map(walk_doc)

-----------------------------------------------------------------------------
(* Counts, items and children of a node (checked under SpecTree) *)

\* the count of a kind in a node, 0 when the kind has no key
CountOf(node, k) == IF k \in DOMAIN node.item_counts THEN node.item_counts[k] ELSE 0

\* C30: in every node of the tree the items list is as long as the sum of the
\* item_counts of the kinds other than `module`, and the node has at most
\* item_counts[`module`] children: exactly as many, unless its children would
\* be past the depth cap.
C30_CountsMatch ==
    \A x \in ResultNodes :
        /\ Len(x.node.items)
              = SumOver(x.node.item_counts, DOMAIN x.node.item_counts \ {"module"})
        /\ Len(x.node.children) <= CountOf(x.node, "module")
        /\ x.level <= DepthCap => Len(x.node.children) = CountOf(x.node, "module")

\* a tree with a node that has items and as many children as it counts modules,
\* and a node whose children the depth cap cut off
C30_Witness ==
    /\ \E x \in ResultNodes :
          /\ Len(x.node.items) > 0
          /\ Len(x.node.children) > 0
          /\ Cardinality(DOMAIN x.node.item_counts) > 2
    /\ \E x \in ResultNodes :
          /\ CountOf(x.node, "module") > 0
          /\ Len(x.node.children) = 0

=============================================================================
